---- MODULE Spec2Model ----
(***************************************************************************)
(* Order Management System of artham.live: Command Validator, Risk        *)
(* Manager, State Manager, Broker Gateway and Execution Engine, connected  *)
(* by Redis streams.  Streams are modelled as FIFO queues of the entries   *)
(* not yet read by their consumer group; order.events and                  *)
(* command.responses have no consumer here and keep every entry.           *)
(* Timestamps (now_iso) and metrics are left out.  Prices are integers.    *)
(***************************************************************************)
EXTENDS Integers, Sequences, FiniteSets, TLC

(* ---------------------------- bounds ----------------------------------- *)
MaxClientCmds == 2
MaxTicks == 2
MaxPushes == 2
\* ticks and broker pushes together
MaxEvents == 3
MaxFaults == 1
MaxQty == 2

(* --------------------- encodings of field values ----------------------- *)
\* a numeric field that is absent, None or "" (normalize_for_redis drops None)
NONE == -1
\* a field holding text that int() / float() reject
BAD == -2

IsNumber(v) == v # NONE /\ v # BAD

\* a or b, on stream/hash values (strings: falsy only when absent or "")
Or(a, b) == IF a # NONE THEN a ELSE b

\* str.upper() on the strings the model uses
Upper(str) ==
    CASE str = "buy" -> "BUY"
      [] str = "sell" -> "SELL"
      [] str = "place_bracket" -> "PLACE_BRACKET"
      [] str = "complete" -> "COMPLETE"
      [] str = "entry_hit" -> "ENTRY_HIT"
      [] str = "exit_hit" -> "EXIT_HIT"
      [] OTHER -> str

Instruments == {"I1"}
Strategies == {"S1"}

VARIABLES
    PAPER_TRADING,        \* ORDER_MANAGER_PAPER_TRADING, fixed per deployment
    brackets,             \* oms:bracket:{bracket_id}, indexed by bracket_id
    orders,               \* oms:order:{order_id}
    activeBrackets,       \* oms:active:brackets
    activeInstrument,     \* oms:active:instrument:{instrument_id}
    activeStrategy,       \* oms:active:strategy:{strategy_id}
    brokerOrderMapping,   \* BROKER_ORDER_MAPPING hash
    apiCommands,          \* STREAM_ORDER_API_COMMANDS
    riskRequests,         \* STREAM_ORDER_RISK_REQUESTS
    stateCommands,        \* STREAM_ORDER_STATE_COMMANDS
    brokerCommands,       \* STREAM_ORDER_BROKER_COMMANDS
    orderUpdates,         \* STREAM_ORDER_UPDATES
    orderEvents,          \* STREAM_ORDER_EVENTS
    commandResponses,     \* STREAM_ORDER_COMMAND_RESPONSES
    kiteOrders,           \* the external broker's order book
    uuidCount,            \* request ids generated by the validator
    lastHandled,          \* history: the entry the State Manager handled last
    inFlight,             \* the create_bracket call process_state_commands awaits in
    pending,              \* per stream: entries delivered to the group, not acknowledged
    faultCount,           \* Redis write failures and consumer crashes so far
    clientCount, tickCount, pushCount

vars == <<PAPER_TRADING, brackets, orders, activeBrackets, activeInstrument,
          activeStrategy, brokerOrderMapping, apiCommands, riskRequests,
          stateCommands, brokerCommands, orderUpdates, orderEvents,
          commandResponses, kiteOrders, uuidCount, lastHandled, inFlight,
          pending, faultCount, clientCount, tickCount, pushCount>>

(* ------------------------------ messages ------------------------------- *)
NoCmd ==
    [command |-> "", request_id |-> NONE, bracket_id |-> NONE,
     strategy_id |-> "", instrument_id |-> "", side |-> "", qty |-> NONE,
     entry_price |-> NONE, target_price |-> NONE, stoploss_price |-> NONE,
     exit_price |-> NONE, exit_type |-> "", filled_price |-> NONE,
     filled_qty |-> NONE]

NoBrokerCmd ==
    [command |-> "", order_id |-> NONE, broker_order_id |-> NONE,
     side |-> "", qty |-> NONE, order_type |-> "", price |-> NONE,
     trigger_price |-> NONE, cancel_qty |-> NONE]

NoUpdate ==
    [order_id |-> NONE, broker_order_id |-> NONE, status |-> "",
     filled_qty |-> NONE, filled_quantity |-> NONE, filled_price |-> NONE,
     average_price |-> NONE, status_message |-> ""]

NoOrder ==
    [order_id |-> NONE, bracket_id |-> NONE, side |-> "", qty |-> NONE,
     order_type |-> "", price |-> NONE, trigger_price |-> NONE,
     state |-> "", filled_price |-> NONE, filled_qty |-> NONE,
     broker_order_id |-> NONE]

NoDetails == [none |-> TRUE]

(* ------------------------- Redis hash helpers -------------------------- *)
\* HSET key mapping: overwrite the given fields, create the hash if missing
Merge(rec, upd) ==
    [f \in DOMAIN rec |-> IF f \in DOMAIN upd THEN upd[f] ELSE rec[f]]

HSetOrder(ords, id, upd) ==
    [k \in (DOMAIN ords) \cup {id} |->
        IF k = id
        THEN Merge(IF id \in DOMAIN ords THEN ords[id] ELSE NoOrder, upd)
        ELSE ords[k]]

HSetBracket(brs, id, upd) == [brs EXCEPT ![id] = Merge(@, upd)]

\* HGETALL oms:bracket:{id} is non-empty
BracketFound(s, id) == id \in DOMAIN s.brackets

(* ------------------ State Manager: ids and publishing ------------------ *)
\* generate_id(): fresh ids; the three child ids are drawn with the bracket's
\* the streams read with xreadgroup by the loops whose faults are modelled
ConsumedStreams == {"api.commands", "state.commands", "order.updates", "broker.commands"}

\* process_state_commands is not inside a handler
NoTask == [pc |-> "idle", bracket_id |-> NONE, request_id |-> NONE]

generate_id(s) == Len(s.brackets) + 1
EntryOrderIdOf(b) == 3 * b - 2
TargetOrderIdOf(b) == 3 * b - 1
StoplossOrderIdOf(b) == 3 * b

update_state_transitions(existing, new_state) == Append(existing, new_state)

\* s.eventFault holds the event types whose xadd to order.events raises during
\* this handler run; the except branch logs and the caller goes on
publish_event(s, event_type, bracket_id, order_id, details) ==
    IF event_type \in s.eventFault
    THEN s
    ELSE [s EXCEPT !.orderEvents =
            Append(@, [event_type |-> event_type, bracket_id |-> bracket_id,
                       order_id |-> order_id, details |-> details])]

publish_broker_command(s, cmd) ==
    [s EXCEPT !.brokerCommands = Append(@, cmd)]

send_response(s, request_id, success, message, data) ==
    IF request_id = NONE
    THEN s
    ELSE [s EXCEPT !.commandResponses =
            Append(@, [request_id |-> request_id, success |-> success,
                       message |-> message, data |-> data])]

\* mutant of RemoveFromActive: the per-strategy set is forgotten
RemoveFromActive_keepsStrategy(s, bracket_id, bracket) ==
    [s EXCEPT !.activeBrackets = @ \ {bracket_id},
              !.activeInstrument[bracket.instrument_id] = @ \ {bracket_id}]

\* SREM of the bracket id from the three active index sets
RemoveFromActive(s, bracket_id, bracket) ==
    [s EXCEPT !.activeBrackets = @ \ {bracket_id},
              !.activeInstrument[bracket.instrument_id] = @ \ {bracket_id},
              !.activeStrategy[bracket.strategy_id] = @ \ {bracket_id}]

\* mutant of LiveMode: the paper-trading switch is ignored
LiveMode_ignoresPaperTrading == TRUE

\* "if not PAPER_TRADING": the State Manager talks to the broker
LiveMode == ~PAPER_TRADING

(* ----------------------- State Manager handlers ------------------------ *)
\* Each handler maps the store s (the State Manager's view of Redis: hashes,
\* index sets and the streams it appends to) to the store after the handler.

\* create_bracket up to and including its publish_broker_command: the bracket
\* is stored as CREATED, indexed and announced, and in live mode the entry
\* order's PLACE_ORDER is on broker.commands
create_bracket_published(s, cmd) ==
    LET bracket_id == generate_id(s)
        entry_order_id == EntryOrderIdOf(bracket_id)
        bracket ==
            [bracket_id |-> bracket_id, strategy_id |-> cmd.strategy_id,
             instrument_id |-> cmd.instrument_id, side |-> cmd.side,
             qty |-> cmd.qty, entry_order_id |-> entry_order_id,
             target_order_id |-> TargetOrderIdOf(bracket_id),
             stoploss_order_id |-> StoplossOrderIdOf(bracket_id),
             entry_price |-> cmd.entry_price,
             target_price |-> cmd.target_price,
             stoploss_price |-> cmd.stoploss_price,
             filled_entry_price |-> NONE, filled_qty |-> NONE,
             remaining_qty |-> NONE, state |-> "CREATED",
             state_transitions |-> update_state_transitions(<<>>, "CREATED")]
        entry_order ==
            [NoOrder EXCEPT !.order_id = entry_order_id,
                            !.bracket_id = bracket_id, !.side = cmd.side,
                            !.qty = cmd.qty, !.order_type = "LIMIT",
                            !.price = cmd.entry_price, !.state = "PLACED"]
        s1 == [s EXCEPT
                !.brackets = Append(@, bracket),
                !.orders = HSetOrder(@, entry_order_id, entry_order),
                !.activeBrackets = @ \cup {bracket_id},
                !.activeInstrument[cmd.instrument_id] = @ \cup {bracket_id},
                !.activeStrategy[cmd.strategy_id] = @ \cup {bracket_id}]
        s2 == publish_event(s1, "BRACKET_CREATED", bracket_id, NONE, bracket)
        s3 == publish_event(s2, "ENTRY_PLACED", bracket_id, entry_order_id, entry_order)
        s4 == IF LiveMode
              THEN publish_broker_command(s3,
                     [NoBrokerCmd EXCEPT !.command = "PLACE_ORDER",
                                         !.order_id = entry_order_id,
                                         !.side = cmd.side, !.qty = cmd.qty,
                                         !.order_type = "LIMIT",
                                         !.price = cmd.entry_price])
              ELSE s3
    IN  s4

\* the rest of create_bracket: the hset that records ENTRY_PLACED, written
\* without reading the bracket again, and the response
create_bracket_entry_placed(s, bracket_id, request_id) ==
    LET s5 == [s EXCEPT !.brackets =
                 HSetBracket(@, bracket_id,
                    [state |-> "ENTRY_PLACED",
                     state_transitions |-> <<"CREATED", "ENTRY_PLACED">>])]
    IN  send_response(s5, request_id, TRUE, "Bracket created",
                      [bracket_id |-> bracket_id])

\* the numeric conversions create_bracket makes; one that raises sends the
\* handler to its except branch before anything is stored
create_bracket_converts(cmd) ==
    /\ IsNumber(cmd.qty) /\ IsNumber(cmd.entry_price)
    /\ IsNumber(cmd.target_price) /\ IsNumber(cmd.stoploss_price)

create_bracket(s, cmd) ==
    IF ~create_bracket_converts(cmd)
    THEN send_response(s, cmd.request_id, FALSE, "Failed to create bracket", NoDetails)
    ELSE create_bracket_entry_placed(create_bracket_published(s, cmd),
                                     generate_id(s), cmd.request_id)

cancel_bracket(s, cmd) ==
    LET bracket_id == cmd.bracket_id IN
    IF ~BracketFound(s, bracket_id)
    THEN send_response(s, cmd.request_id, FALSE, "Bracket not found", NoDetails)
    ELSE
    LET bracket == s.brackets[bracket_id]
        cancelled == [state |-> "CANCELLED"]
        s1 == [s EXCEPT !.orders =
                 HSetOrder(HSetOrder(HSetOrder(@,
                    bracket.entry_order_id, cancelled),
                    bracket.target_order_id, cancelled),
                    bracket.stoploss_order_id, cancelled)]
        s2 == [s1 EXCEPT !.brackets =
                 HSetBracket(@, bracket_id,
                    [state |-> "CANCELLED",
                     state_transitions |->
                        update_state_transitions(bracket.state_transitions, "CANCELLED")])]
        s3 == RemoveFromActive(s2, bracket_id, bracket)
        s4 == publish_event(s3, "BRACKET_CANCELLED", bracket_id, NONE, NoDetails)
    IN  send_response(s4, cmd.request_id, TRUE, "Bracket cancelled", NoDetails)

modify_sl_tp(s, cmd) ==
    LET bracket_id == cmd.bracket_id
        target_price == cmd.target_price
        stoploss_price == cmd.stoploss_price
    IN
    IF ~BracketFound(s, bracket_id)
    THEN send_response(s, cmd.request_id, FALSE, "Bracket not found", NoDetails)
    ELSE IF target_price = BAD \/ stoploss_price = BAD
    THEN send_response(s, cmd.request_id, FALSE, "Failed to modify", NoDetails)
    ELSE
    LET bracket == s.brackets[bracket_id]
        s1 == [s EXCEPT !.brackets =
                 HSetBracket(@, bracket_id,
                    [target_price |-> Or(target_price, bracket.target_price),
                     stoploss_price |-> Or(stoploss_price, bracket.stoploss_price)])]
        s2 == IF bracket.state = "EXIT_ORDERS_PLACED" /\ target_price # NONE
              THEN [s1 EXCEPT !.orders =
                      HSetOrder(@, bracket.target_order_id, [price |-> target_price])]
              ELSE s1
        s3 == IF bracket.state = "EXIT_ORDERS_PLACED" /\ stoploss_price # NONE
              THEN [s2 EXCEPT !.orders =
                      HSetOrder(@, bracket.stoploss_order_id,
                                [trigger_price |-> stoploss_price])]
              ELSE s2
        s4 == publish_event(s3, "SL_TP_MODIFIED", bracket_id, NONE,
                 [target_price |-> target_price, stoploss_price |-> stoploss_price])
    IN  send_response(s4, cmd.request_id, TRUE, "Modified SL/TP", NoDetails)

\* variant of mark_entry_filled: the unfilled remainder is not computed
mark_entry_filled_noRemainder(s, bracket, fill_price, actual_filled_qty) ==
    LET bracket_id == bracket.bracket_id
        entry_order_id == bracket.entry_order_id
        original_qty == bracket.qty
        filled_qty == IF actual_filled_qty # NONE THEN actual_filled_qty ELSE original_qty
        remaining_qty == 0
        s1 == [s EXCEPT !.orders =
                 HSetOrder(@, entry_order_id,
                    [state |-> "FILLED", filled_price |-> fill_price,
                     filled_qty |-> filled_qty])]
        s2 == [s1 EXCEPT !.brackets =
                 HSetBracket(@, bracket_id,
                    [state |-> "ENTRY_FILLED",
                     state_transitions |->
                        update_state_transitions(bracket.state_transitions, "ENTRY_FILLED"),
                     filled_entry_price |-> fill_price,
                     filled_qty |-> filled_qty,
                     remaining_qty |-> remaining_qty])]
    IN  publish_event(s2, "ENTRY_FILLED", bracket_id, entry_order_id,
            [filled_price |-> fill_price, filled_qty |-> filled_qty,
             original_qty |-> original_qty, remaining_qty |-> remaining_qty])

mark_entry_filled(s, bracket, fill_price, actual_filled_qty) ==
    LET bracket_id == bracket.bracket_id
        entry_order_id == bracket.entry_order_id
        original_qty == bracket.qty
        filled_qty == IF actual_filled_qty # NONE THEN actual_filled_qty ELSE original_qty
        remaining_qty == original_qty - filled_qty
        s1 == [s EXCEPT !.orders =
                 HSetOrder(@, entry_order_id,
                    [state |-> "FILLED", filled_price |-> fill_price,
                     filled_qty |-> filled_qty])]
        s2 == [s1 EXCEPT !.brackets =
                 HSetBracket(@, bracket_id,
                    [state |-> "ENTRY_FILLED",
                     state_transitions |->
                        update_state_transitions(bracket.state_transitions, "ENTRY_FILLED"),
                     filled_entry_price |-> fill_price,
                     filled_qty |-> filled_qty,
                     remaining_qty |-> remaining_qty])]
    IN  publish_event(s2, "ENTRY_FILLED", bracket_id, entry_order_id,
            [filled_price |-> fill_price, filled_qty |-> filled_qty,
             original_qty |-> original_qty, remaining_qty |-> remaining_qty])

\* variant of ExitQty: exits sized to the quantity originally requested
ExitQty_requestedQty(bracket) == bracket.qty

\* place_exit_orders: the quantity of both exit orders
ExitQty(bracket) ==
    IF bracket.filled_qty # NONE THEN bracket.filled_qty ELSE bracket.qty

place_exit_orders(s, bracket) ==
    LET bracket_id == bracket.bracket_id
        target_order_id == bracket.target_order_id
        stoploss_order_id == bracket.stoploss_order_id
        exit_qty == ExitQty(bracket)
        remaining_qty == IF bracket.remaining_qty # NONE THEN bracket.remaining_qty ELSE 0
        exit_side == IF bracket.side = "BUY" THEN "SELL" ELSE "BUY"
        target_order ==
            [NoOrder EXCEPT !.order_id = target_order_id,
                            !.bracket_id = bracket_id, !.side = exit_side,
                            !.qty = exit_qty, !.order_type = "LIMIT",
                            !.price = bracket.target_price, !.state = "PLACED"]
        stoploss_order ==
            [NoOrder EXCEPT !.order_id = stoploss_order_id,
                            !.bracket_id = bracket_id, !.side = exit_side,
                            !.qty = exit_qty, !.order_type = "SL-M",
                            !.trigger_price = bracket.stoploss_price,
                            !.state = "PLACED"]
        s1 == [s EXCEPT
                !.orders = HSetOrder(HSetOrder(@, target_order_id, target_order),
                                     stoploss_order_id, stoploss_order),
                !.brackets = HSetBracket(@, bracket_id,
                    [state |-> "EXIT_ORDERS_PLACED",
                     state_transitions |->
                        update_state_transitions(bracket.state_transitions,
                                                 "EXIT_ORDERS_PLACED")])]
        s2 == publish_event(s1, "EXIT_ORDERS_PLACED", bracket_id, NONE,
                 [target_order_id |-> target_order_id,
                  stoploss_order_id |-> stoploss_order_id,
                  exit_qty |-> exit_qty, remaining_qty |-> remaining_qty])
        s3 == publish_event(s2, "TARGET_PLACED", bracket_id, target_order_id, target_order)
        s4 == publish_event(s3, "STOPLOSS_PLACED", bracket_id, stoploss_order_id, stoploss_order)
        s5 == IF remaining_qty > 0
              THEN publish_broker_command(s4,
                     [NoBrokerCmd EXCEPT !.command = "CANCEL_ORDER",
                                         !.order_id = bracket.entry_order_id,
                                         !.cancel_qty = remaining_qty])
              ELSE s4
        s6 == publish_broker_command(s5,
                 [NoBrokerCmd EXCEPT !.command = "PLACE_ORDER",
                                     !.order_id = target_order_id,
                                     !.side = exit_side, !.qty = exit_qty,
                                     !.order_type = "LIMIT",
                                     !.price = bracket.target_price])
        s7 == publish_broker_command(s6,
                 [NoBrokerCmd EXCEPT !.command = "PLACE_ORDER",
                                     !.order_id = stoploss_order_id,
                                     !.side = exit_side, !.qty = exit_qty,
                                     !.order_type = "SL-M",
                                     !.trigger_price = bracket.stoploss_price])
    IN  IF exit_qty <= 0 THEN s
        ELSE IF LiveMode THEN s7
        ELSE s4

\* variant of execute_exit: a failed append of EXIT_CANCELLED is raised to the
\* caller, so the writes after it are not made
execute_exit_eventFailureAborts(s, bracket_id, exit_type, filled_price, filled_qty) ==
    IF ~BracketFound(s, bracket_id) THEN s
    ELSE
    LET bracket == s.brackets[bracket_id]
        isTarget == exit_type = "target"
        filled_order_id == IF isTarget THEN bracket.target_order_id
                           ELSE bracket.stoploss_order_id
        cancel_order_id == IF isTarget THEN bracket.stoploss_order_id
                           ELSE bracket.target_order_id
        new_bracket_state == IF isTarget THEN "TARGET_FILLED" ELSE "STOPLOSS_FILLED"
        event_type == new_bracket_state
        qtyMapping == [state |-> "FILLED",
                       filled_qty |-> IF filled_qty # NONE THEN filled_qty
                                      ELSE bracket.qty]
        filled_mapping == IF filled_price # NONE
                          THEN [state |-> "FILLED",
                                filled_qty |-> qtyMapping.filled_qty,
                                filled_price |-> filled_price]
                          ELSE qtyMapping
        s1 == [s EXCEPT !.orders =
                 HSetOrder(HSetOrder(@, filled_order_id, filled_mapping),
                           cancel_order_id, [state |-> "CANCELLED"])]
        s2 == IF LiveMode
              THEN publish_event(
                     publish_broker_command(s1,
                        [NoBrokerCmd EXCEPT !.command = "CANCEL_ORDER",
                                            !.order_id = cancel_order_id]),
                     "EXIT_CANCELLED", bracket_id, cancel_order_id, NoDetails)
              ELSE s1
        transitions1 == update_state_transitions(bracket.state_transitions,
                                                 new_bracket_state)
        transitions2 == update_state_transitions(transitions1, "COMPLETED")
        s3 == [s2 EXCEPT !.brackets =
                 HSetBracket(@, bracket_id,
                    [state |-> "COMPLETED", state_transitions |-> transitions2])]
        s4 == RemoveFromActive(s3, bracket_id, bracket)
        s5 == publish_event(s4, event_type, bracket_id, filled_order_id, NoDetails)
    IN  IF LiveMode /\ "EXIT_CANCELLED" \in s.eventFault
        THEN s2
        ELSE publish_event(s5, "BRACKET_COMPLETED", bracket_id, NONE, NoDetails)

execute_exit(s, bracket_id, exit_type, filled_price, filled_qty) ==
    IF ~BracketFound(s, bracket_id) THEN s
    ELSE
    LET bracket == s.brackets[bracket_id]
        isTarget == exit_type = "target"
        filled_order_id == IF isTarget THEN bracket.target_order_id
                           ELSE bracket.stoploss_order_id
        cancel_order_id == IF isTarget THEN bracket.stoploss_order_id
                           ELSE bracket.target_order_id
        new_bracket_state == IF isTarget THEN "TARGET_FILLED" ELSE "STOPLOSS_FILLED"
        event_type == new_bracket_state
        qtyMapping == [state |-> "FILLED",
                       filled_qty |-> IF filled_qty # NONE THEN filled_qty
                                      ELSE bracket.qty]
        filled_mapping == IF filled_price # NONE
                          THEN [state |-> "FILLED",
                                filled_qty |-> qtyMapping.filled_qty,
                                filled_price |-> filled_price]
                          ELSE qtyMapping
        s1 == [s EXCEPT !.orders =
                 HSetOrder(HSetOrder(@, filled_order_id, filled_mapping),
                           cancel_order_id, [state |-> "CANCELLED"])]
        s2 == IF LiveMode
              THEN publish_event(
                     publish_broker_command(s1,
                        [NoBrokerCmd EXCEPT !.command = "CANCEL_ORDER",
                                            !.order_id = cancel_order_id]),
                     "EXIT_CANCELLED", bracket_id, cancel_order_id, NoDetails)
              ELSE s1
        transitions1 == update_state_transitions(bracket.state_transitions,
                                                 new_bracket_state)
        transitions2 == update_state_transitions(transitions1, "COMPLETED")
        s3 == [s2 EXCEPT !.brackets =
                 HSetBracket(@, bracket_id,
                    [state |-> "COMPLETED", state_transitions |-> transitions2])]
        s4 == RemoveFromActive(s3, bracket_id, bracket)
        s5 == publish_event(s4, event_type, bracket_id, filled_order_id, NoDetails)
    IN  publish_event(s5, "BRACKET_COMPLETED", bracket_id, NONE, NoDetails)

\* variant of force_exit: the caller's exit_price is not looked at
force_exit_ignoresExitPrice(s, cmd) ==
    LET bracket_id == cmd.bracket_id IN
    IF ~BracketFound(s, bracket_id)
    THEN send_response(s, cmd.request_id, FALSE, "Bracket not found", NoDetails)
    ELSE
    LET bracket == s.brackets[bracket_id]
        state == bracket.state
        s1 == IF state = "ENTRY_FILLED" THEN place_exit_orders(s, bracket) ELSE s
        price == Or(bracket.filled_entry_price, bracket.entry_price)
        s2 == execute_exit(s1, bracket_id, "stoploss", price, NONE)
        s3 == publish_event(s2, "FORCE_EXIT", bracket_id, NONE, [exit_price |-> price])
    IN  IF state \in {"CREATED", "ENTRY_PLACED"}
        THEN publish_event(
                cancel_bracket(s, [NoCmd EXCEPT !.request_id = cmd.request_id,
                                                !.bracket_id = bracket_id]),
                "FORCE_EXIT", bracket_id, NONE, NoDetails)
        ELSE send_response(s3, cmd.request_id, TRUE, "Force exit executed", NoDetails)

force_exit(s, cmd) ==
    LET bracket_id == cmd.bracket_id IN
    IF ~BracketFound(s, bracket_id)
    THEN send_response(s, cmd.request_id, FALSE, "Bracket not found", NoDetails)
    ELSE
    LET bracket == s.brackets[bracket_id]
        state == bracket.state
        s1 == IF state = "ENTRY_FILLED" THEN place_exit_orders(s, bracket) ELSE s
        price == IF IsNumber(cmd.exit_price) THEN cmd.exit_price
                 ELSE Or(bracket.filled_entry_price, bracket.entry_price)
        s2 == execute_exit(s1, bracket_id, "stoploss", price, NONE)
        s3 == publish_event(s2, "FORCE_EXIT", bracket_id, NONE, [exit_price |-> price])
    IN  IF state \in {"CREATED", "ENTRY_PLACED"}
        THEN publish_event(
                cancel_bracket(s, [NoCmd EXCEPT !.request_id = cmd.request_id,
                                                !.bracket_id = bracket_id]),
                "FORCE_EXIT", bracket_id, NONE, NoDetails)
        ELSE send_response(s3, cmd.request_id, TRUE, "Force exit executed", NoDetails)

\* mutant of handle_entry_hit: the state guard only stops terminal brackets
handle_entry_hit_weakGuard(s, cmd) ==
    LET bracket_id == cmd.bracket_id IN
    IF bracket_id = NONE THEN s
    ELSE IF ~BracketFound(s, bracket_id) THEN s
    ELSE
    LET bracket == s.brackets[bracket_id]
        fill_price == IF IsNumber(cmd.filled_price) THEN cmd.filled_price
                      ELSE bracket.entry_price
        actual_filled_qty == IF IsNumber(cmd.filled_qty) THEN cmd.filled_qty ELSE NONE
        s1 == mark_entry_filled(s, bracket, fill_price, actual_filled_qty)
    IN  IF bracket.state \in {"COMPLETED", "CANCELLED", "REJECTED"} THEN s
        ELSE place_exit_orders(s1, s1.brackets[bracket_id])

handle_entry_hit(s, cmd) ==
    LET bracket_id == cmd.bracket_id IN
    IF bracket_id = NONE THEN s
    ELSE IF ~BracketFound(s, bracket_id) THEN s
    ELSE
    LET bracket == s.brackets[bracket_id]
        fill_price == IF IsNumber(cmd.filled_price) THEN cmd.filled_price
                      ELSE bracket.entry_price
        actual_filled_qty == IF IsNumber(cmd.filled_qty) THEN cmd.filled_qty ELSE NONE
        s1 == mark_entry_filled(s, bracket, fill_price, actual_filled_qty)
    IN  IF bracket.state \notin {"ENTRY_PLACED", "CREATED"} THEN s
        ELSE place_exit_orders(s1, s1.brackets[bracket_id])

\* HGET BROKER_ORDER_MAPPING key (None when the key is absent)
HGetMapping(mapping, key) ==
    IF key \in DOMAIN mapping THEN mapping[key] ELSE NONE

HSetMapping(mapping, key, value) ==
    [k \in (DOMAIN mapping) \cup {key} |-> IF k = key THEN value ELSE mapping[k]]

\* the internal order id handle_order_update works on
ResolveOrderId(s, update) ==
    IF update.order_id = NONE /\ update.broker_order_id # NONE
    THEN HGetMapping(s.brokerOrderMapping, update.broker_order_id)
    ELSE update.order_id

\* handle_order_update; with exits = FALSE the entry-fill branch stops after
\* mark_entry_filled, at the await that reads the bracket again
handle_order_update_upto(s, update, exits) ==
    LET broker_order_id == update.broker_order_id
        s0 == IF update.order_id # NONE /\ broker_order_id # NONE
              THEN [s EXCEPT !.brokerOrderMapping =
                      HSetMapping(@, broker_order_id, update.order_id)]
              ELSE s
        order_id == ResolveOrderId(s, update)
    IN
    IF order_id = NONE THEN s0
    ELSE IF order_id \notin DOMAIN s0.orders THEN s0
    ELSE
    LET order == s0.orders[order_id]
        bracket_id == order.bracket_id
        status == Upper(update.status)
        isFill == status \in {"COMPLETE", "FILLED"}
        filled_qty == Or(update.filled_qty, update.filled_quantity)
        filled_price == Or(update.filled_price, update.average_price)
        new_order ==
            [order EXCEPT
                !.broker_order_id = IF broker_order_id # NONE THEN broker_order_id ELSE @,
                !.state = CASE isFill -> "FILLED"
                            [] status \in {"CANCELLED", "CANCELED"} -> "CANCELLED"
                            [] status = "REJECTED" -> "REJECTED"
                            [] status \in {"PLACED", "OPEN", "PENDING", "TRIGGER PENDING"} -> "PLACED"
                            [] OTHER -> @,
                !.filled_qty = IF isFill /\ filled_qty # NONE THEN filled_qty ELSE @,
                !.filled_price = IF isFill /\ filled_price # NONE THEN filled_price ELSE @]
        s1 == [s0 EXCEPT !.orders = HSetOrder(@, order_id, new_order)]
    IN
    IF bracket_id = NONE \/ ~BracketFound(s1, bracket_id) THEN s1
    ELSE
    LET bracket == s1.brackets[bracket_id]
        \* entry order filled
        fill_price == IF filled_price # NONE THEN filled_price ELSE bracket.entry_price
        e1 == mark_entry_filled(s1, bracket, fill_price, filled_qty)
        e2 == IF exits THEN place_exit_orders(e1, e1.brackets[bracket_id]) ELSE e1
        \* entry order rejected or cancelled
        r1 == [s1 EXCEPT !.brackets =
                 HSetBracket(@, bracket_id, [state |-> "REJECTED"])]
        r2 == RemoveFromActive(r1, bracket_id, bracket)
        r3 == publish_event(r2, "BRACKET_REJECTED", bracket_id, order_id,
                 [status |-> status, reason |-> update.status_message])
        \* exit order filled
        exit_type == IF order_id = bracket.target_order_id THEN "target" ELSE "stoploss"
        x1 == execute_exit(s1, bracket_id, exit_type, filled_price, filled_qty)
        \* exit order rejected
        j1 == publish_event(s1, "ORDER_REJECTED", bracket_id, order_id,
                 [status |-> status, reason |-> update.status_message])
    IN
    IF order_id = bracket.entry_order_id
    THEN IF isFill THEN e2
         ELSE IF status \in {"REJECTED", "CANCELLED", "CANCELED"} THEN r3
         ELSE s1
    ELSE IF order_id \in {bracket.target_order_id, bracket.stoploss_order_id}
    THEN IF isFill THEN x1
         ELSE IF status = "REJECTED" THEN j1
         ELSE s1
    ELSE s1

handle_order_update(s, update) == handle_order_update_upto(s, update, TRUE)

\* the bracket whose entry order this update reports filled, NONE if the
\* update takes another branch of handle_order_update
EntryFillBracket(s, update) ==
    LET order_id == ResolveOrderId(s, update) IN
    IF order_id = NONE \/ order_id \notin DOMAIN s.orders THEN NONE
    ELSE LET bracket_id == s.orders[order_id].bracket_id IN
         IF bracket_id = NONE \/ ~BracketFound(s, bracket_id) THEN NONE
         ELSE IF /\ order_id = s.brackets[bracket_id].entry_order_id
                 /\ Upper(update.status) \in {"COMPLETE", "FILLED"}
              THEN bracket_id ELSE NONE

process_state_command(s, cmd) ==
    LET command_type == Upper(cmd.command) IN
    CASE command_type = "PLACE_BRACKET" -> create_bracket(s, cmd)
      [] command_type = "CANCEL_BRACKET" -> cancel_bracket(s, cmd)
      [] command_type = "MODIFY_SL_TP" -> modify_sl_tp(s, cmd)
      [] command_type = "FORCE_EXIT" -> force_exit(s, cmd)
      [] command_type = "ENTRY_HIT" -> handle_entry_hit(s, cmd)
      [] command_type = "EXIT_HIT" ->
            IF cmd.filled_price = BAD THEN s
            ELSE execute_exit(s, cmd.bracket_id, cmd.exit_type, cmd.filled_price, NONE)
      [] OTHER -> s

(* -------------------------- Command Validator -------------------------- *)
\* variant of validate_command: ENTRY_HIT and EXIT_HIT are accepted from clients
validate_command_acceptsHits(cmd) ==
    LET command == Upper(cmd.command) IN
    IF command = "" THEN "Missing command"
    ELSE IF command = "PLACE_BRACKET" THEN
        IF cmd.strategy_id = "" THEN "Missing field: strategy_id"
        ELSE IF cmd.instrument_id = "" THEN "Missing field: instrument_id"
        ELSE IF cmd.side = "" THEN "Missing field: side"
        ELSE IF cmd.qty = NONE THEN "Missing field: qty"
        ELSE IF cmd.entry_price = NONE THEN "Missing field: entry_price"
        ELSE IF cmd.target_price = NONE THEN "Missing field: target_price"
        ELSE IF cmd.stoploss_price = NONE THEN "Missing field: stoploss_price"
        ELSE IF Upper(cmd.side) \notin {"BUY", "SELL"} THEN "side must be BUY or SELL"
        ELSE IF cmd.qty = BAD THEN "qty must be an integer"
        ELSE IF cmd.qty <= 0 THEN "qty must be > 0"
        ELSE ""
    ELSE IF command = "CANCEL_BRACKET" THEN
        IF cmd.bracket_id = NONE THEN "Missing field: bracket_id" ELSE ""
    ELSE IF command = "MODIFY_SL_TP" THEN
        IF cmd.bracket_id = NONE THEN "Missing field: bracket_id"
        ELSE IF cmd.target_price = NONE /\ cmd.stoploss_price = NONE
        THEN "Provide target_price or stoploss_price"
        ELSE ""
    ELSE IF command = "FORCE_EXIT" THEN
        IF cmd.bracket_id = NONE THEN "Missing field: bracket_id" ELSE ""
    ELSE IF command \in {"ENTRY_HIT", "EXIT_HIT"} THEN ""
    ELSE "Unknown command"

validate_command(cmd) ==
    LET command == Upper(cmd.command) IN
    IF command = "" THEN "Missing command"
    ELSE IF command = "PLACE_BRACKET" THEN
        IF cmd.strategy_id = "" THEN "Missing field: strategy_id"
        ELSE IF cmd.instrument_id = "" THEN "Missing field: instrument_id"
        ELSE IF cmd.side = "" THEN "Missing field: side"
        ELSE IF cmd.qty = NONE THEN "Missing field: qty"
        ELSE IF cmd.entry_price = NONE THEN "Missing field: entry_price"
        ELSE IF cmd.target_price = NONE THEN "Missing field: target_price"
        ELSE IF cmd.stoploss_price = NONE THEN "Missing field: stoploss_price"
        ELSE IF Upper(cmd.side) \notin {"BUY", "SELL"} THEN "side must be BUY or SELL"
        ELSE IF cmd.qty = BAD THEN "qty must be an integer"
        ELSE IF cmd.qty <= 0 THEN "qty must be > 0"
        ELSE ""
    ELSE IF command = "CANCEL_BRACKET" THEN
        IF cmd.bracket_id = NONE THEN "Missing field: bracket_id" ELSE ""
    ELSE IF command = "MODIFY_SL_TP" THEN
        IF cmd.bracket_id = NONE THEN "Missing field: bracket_id"
        ELSE IF cmd.target_price = NONE /\ cmd.stoploss_price = NONE
        THEN "Provide target_price or stoploss_price"
        ELSE ""
    ELSE IF command = "FORCE_EXIT" THEN
        IF cmd.bracket_id = NONE THEN "Missing field: bracket_id" ELSE ""
    ELSE "Unknown command"

(* ----------------------------- Risk Manager ---------------------------- *)
MAX_NOTIONAL == 1000000

\* mutant of validate_risk: the BUY ordering test is not strict
validate_risk_looseOrder(cmd) ==
    LET command == Upper(cmd.command)
        qty == cmd.qty
        entry_price == cmd.entry_price
        target_price == cmd.target_price
        stoploss_price == cmd.stoploss_price
        side == Upper(cmd.side)
    IN
    IF command # "PLACE_BRACKET" THEN ""
    ELSE IF ~(IsNumber(qty) /\ IsNumber(entry_price) /\ IsNumber(target_price)
              /\ IsNumber(stoploss_price))
    THEN "Invalid numeric fields"
    ELSE IF qty <= 0 \/ entry_price <= 0 \/ target_price <= 0 \/ stoploss_price <= 0
    THEN "Prices and qty must be > 0"
    ELSE IF side = "BUY" /\ ~(target_price >= entry_price /\ entry_price >= stoploss_price)
    THEN "Price order invalid for BUY"
    ELSE IF side = "SELL" /\ ~(target_price < entry_price /\ entry_price < stoploss_price)
    THEN "Price order invalid for SELL"
    ELSE IF side \notin {"BUY", "SELL"} THEN "Invalid side"
    ELSE IF qty * entry_price > MAX_NOTIONAL THEN "Notional limit exceeded"
    ELSE ""

\* mutant of validate_risk: a notional equal to the ceiling is rejected
validate_risk_ceilingExclusive(cmd) ==
    LET command == Upper(cmd.command)
        qty == cmd.qty
        entry_price == cmd.entry_price
        target_price == cmd.target_price
        stoploss_price == cmd.stoploss_price
        side == Upper(cmd.side)
    IN
    IF command # "PLACE_BRACKET" THEN ""
    ELSE IF ~(IsNumber(qty) /\ IsNumber(entry_price) /\ IsNumber(target_price)
              /\ IsNumber(stoploss_price))
    THEN "Invalid numeric fields"
    ELSE IF qty <= 0 \/ entry_price <= 0 \/ target_price <= 0 \/ stoploss_price <= 0
    THEN "Prices and qty must be > 0"
    ELSE IF side = "BUY" /\ ~(target_price > entry_price /\ entry_price > stoploss_price)
    THEN "Price order invalid for BUY"
    ELSE IF side = "SELL" /\ ~(target_price < entry_price /\ entry_price < stoploss_price)
    THEN "Price order invalid for SELL"
    ELSE IF side \notin {"BUY", "SELL"} THEN "Invalid side"
    ELSE IF qty * entry_price >= MAX_NOTIONAL THEN "Notional limit exceeded"
    ELSE ""

validate_risk(cmd) ==
    LET command == Upper(cmd.command)
        qty == cmd.qty
        entry_price == cmd.entry_price
        target_price == cmd.target_price
        stoploss_price == cmd.stoploss_price
        side == Upper(cmd.side)
    IN
    IF command # "PLACE_BRACKET" THEN ""
    ELSE IF ~(IsNumber(qty) /\ IsNumber(entry_price) /\ IsNumber(target_price)
              /\ IsNumber(stoploss_price))
    THEN "Invalid numeric fields"
    ELSE IF qty <= 0 \/ entry_price <= 0 \/ target_price <= 0 \/ stoploss_price <= 0
    THEN "Prices and qty must be > 0"
    ELSE IF side = "BUY" /\ ~(target_price > entry_price /\ entry_price > stoploss_price)
    THEN "Price order invalid for BUY"
    ELSE IF side = "SELL" /\ ~(target_price < entry_price /\ entry_price < stoploss_price)
    THEN "Price order invalid for SELL"
    ELSE IF side \notin {"BUY", "SELL"} THEN "Invalid side"
    ELSE IF qty * entry_price > MAX_NOTIONAL THEN "Notional limit exceeded"
    ELSE ""

(* --------------------------- Execution Engine -------------------------- *)
\* variant of HitsForBracket: the stop-loss is tested before the target
HitsForBracket_stoplossFirst(bracket, price) ==
    LET state == bracket.state
        side == bracket.side
        entry_hit == IF side = "BUY" THEN price <= bracket.entry_price
                     ELSE IF side = "SELL" THEN price >= bracket.entry_price
                     ELSE FALSE
        target_hit == IF side = "BUY" THEN price >= bracket.target_price
                      ELSE IF side = "SELL" THEN price <= bracket.target_price
                      ELSE FALSE
        stoploss_hit == IF side = "BUY" THEN price <= bracket.stoploss_price
                        ELSE IF side = "SELL" THEN price >= bracket.stoploss_price
                        ELSE FALSE
        exit_hit(exit_type) ==
            [NoCmd EXCEPT !.command = "EXIT_HIT", !.bracket_id = bracket.bracket_id,
                          !.exit_type = exit_type, !.filled_price = price]
    IN
    IF state = "ENTRY_PLACED" /\ PAPER_TRADING
    THEN IF entry_hit
         THEN <<[NoCmd EXCEPT !.command = "ENTRY_HIT",
                              !.bracket_id = bracket.bracket_id,
                              !.filled_price = price]>>
         ELSE <<>>
    ELSE IF state # "EXIT_ORDERS_PLACED" THEN <<>>
    ELSE IF stoploss_hit THEN <<exit_hit("stoploss")>>
    ELSE IF target_hit THEN <<exit_hit("target")>>
    ELSE <<>>

\* variant of HitsForBracket: entries are simulated in live mode too
HitsForBracket_entryInLiveMode(bracket, price) ==
    LET state == bracket.state
        side == bracket.side
        entry_hit == IF side = "BUY" THEN price <= bracket.entry_price
                     ELSE IF side = "SELL" THEN price >= bracket.entry_price
                     ELSE FALSE
        target_hit == IF side = "BUY" THEN price >= bracket.target_price
                      ELSE IF side = "SELL" THEN price <= bracket.target_price
                      ELSE FALSE
        stoploss_hit == IF side = "BUY" THEN price <= bracket.stoploss_price
                        ELSE IF side = "SELL" THEN price >= bracket.stoploss_price
                        ELSE FALSE
        exit_hit(exit_type) ==
            [NoCmd EXCEPT !.command = "EXIT_HIT", !.bracket_id = bracket.bracket_id,
                          !.exit_type = exit_type, !.filled_price = price]
    IN
    IF state = "ENTRY_PLACED"
    THEN IF entry_hit
         THEN <<[NoCmd EXCEPT !.command = "ENTRY_HIT",
                              !.bracket_id = bracket.bracket_id,
                              !.filled_price = price]>>
         ELSE <<>>
    ELSE IF state # "EXIT_ORDERS_PLACED" THEN <<>>
    ELSE IF target_hit THEN <<exit_hit("target")>>
    ELSE IF stoploss_hit THEN <<exit_hit("stoploss")>>
    ELSE <<>>

\* the commands evaluate_exits_for_tick publishes for one candidate bracket
HitsForBracket(bracket, price) ==
    LET state == bracket.state
        side == bracket.side
        entry_hit == IF side = "BUY" THEN price <= bracket.entry_price
                     ELSE IF side = "SELL" THEN price >= bracket.entry_price
                     ELSE FALSE
        target_hit == IF side = "BUY" THEN price >= bracket.target_price
                      ELSE IF side = "SELL" THEN price <= bracket.target_price
                      ELSE FALSE
        stoploss_hit == IF side = "BUY" THEN price <= bracket.stoploss_price
                        ELSE IF side = "SELL" THEN price >= bracket.stoploss_price
                        ELSE FALSE
        exit_hit(exit_type) ==
            [NoCmd EXCEPT !.command = "EXIT_HIT", !.bracket_id = bracket.bracket_id,
                          !.exit_type = exit_type, !.filled_price = price]
    IN
    IF state = "ENTRY_PLACED" /\ PAPER_TRADING
    THEN IF entry_hit
         THEN <<[NoCmd EXCEPT !.command = "ENTRY_HIT",
                              !.bracket_id = bracket.bracket_id,
                              !.filled_price = price]>>
         ELSE <<>>
    ELSE IF state # "EXIT_ORDERS_PLACED" THEN <<>>
    ELSE IF target_hit THEN <<exit_hit("target")>>
    ELSE IF stoploss_hit THEN <<exit_hit("stoploss")>>
    ELSE <<>>

RECURSIVE HitsInOrder(_, _, _)
HitsInOrder(order, brs, price) ==
    IF order = <<>> THEN <<>>
    ELSE HitsForBracket(brs[Head(order)], price) \o HitsInOrder(Tail(order), brs, price)

\* the orders in which SMEMBERS may return the members of set S
Orderings(S) ==
    {f \in [1..Cardinality(S) -> S] : \A i, j \in 1..Cardinality(S) : f[i] = f[j] => i = j}

evaluate_exits_for_tick(instrument_id, price, order) ==
    HitsInOrder(order, brackets, price)

(* ---------------------------- Broker Gateway --------------------------- *)
get_broker_order_id(order_id, broker_order_id) ==
    IF broker_order_id # NONE THEN broker_order_id
    ELSE IF order_id = NONE THEN NONE
    ELSE HGetMapping(brokerOrderMapping, order_id)

\* ids the broker assigns; never equal to an internal order id
NewBrokerOrderId == 100 + Cardinality(DOMAIN kiteOrders) + 1

\* variant of place_broker_order: the broker id is not recorded in the mapping
place_broker_order_noMapping(cmd, ok) ==
    IF ok /\ IsNumber(cmd.qty)
    THEN LET broker_order_id == NewBrokerOrderId IN
         /\ kiteOrders' = HSetMapping(kiteOrders, broker_order_id,
                [status |-> "OPEN", qty |-> cmd.qty,
                 price |-> Or(cmd.price, cmd.trigger_price)])
         /\ UNCHANGED brokerOrderMapping
         /\ orderUpdates' = Append(orderUpdates,
                [NoUpdate EXCEPT !.order_id = cmd.order_id,
                                 !.broker_order_id = broker_order_id,
                                 !.status = "PLACED"])
    ELSE /\ orderUpdates' = Append(orderUpdates,
                [NoUpdate EXCEPT !.order_id = cmd.order_id,
                                 !.status = "REJECTED",
                                 !.status_message = "broker error"])
         /\ UNCHANGED <<kiteOrders, brokerOrderMapping>>

\* kite.place_order returned an id (ok) or raised
place_broker_order(cmd, ok) ==
    IF ok /\ IsNumber(cmd.qty)
    THEN LET broker_order_id == NewBrokerOrderId IN
         /\ kiteOrders' = HSetMapping(kiteOrders, broker_order_id,
                [status |-> "OPEN", qty |-> cmd.qty,
                 price |-> Or(cmd.price, cmd.trigger_price)])
         /\ brokerOrderMapping' =
                HSetMapping(brokerOrderMapping, broker_order_id, cmd.order_id)
         /\ orderUpdates' = Append(orderUpdates,
                [NoUpdate EXCEPT !.order_id = cmd.order_id,
                                 !.broker_order_id = broker_order_id,
                                 !.status = "PLACED"])
    ELSE /\ orderUpdates' = Append(orderUpdates,
                [NoUpdate EXCEPT !.order_id = cmd.order_id,
                                 !.status = "REJECTED",
                                 !.status_message = "broker error"])
         /\ UNCHANGED <<kiteOrders, brokerOrderMapping>>

\* kite.cancel_order succeeds on an order the broker still has open
cancel_broker_order(cmd) ==
    LET broker_order_id == get_broker_order_id(cmd.order_id, cmd.broker_order_id) IN
    IF broker_order_id # NONE /\ broker_order_id \in DOMAIN kiteOrders
       /\ kiteOrders[broker_order_id].status = "OPEN"
    THEN /\ kiteOrders' = [kiteOrders EXCEPT ![broker_order_id].status = "CANCELLED"]
         /\ orderUpdates' = Append(orderUpdates,
                [NoUpdate EXCEPT !.order_id = cmd.order_id,
                                 !.broker_order_id = broker_order_id,
                                 !.status = "CANCELLED"])
         /\ UNCHANGED brokerOrderMapping
    ELSE UNCHANGED <<kiteOrders, orderUpdates, brokerOrderMapping>>

modify_broker_order(cmd) ==
    LET broker_order_id == get_broker_order_id(cmd.order_id, cmd.broker_order_id) IN
    IF broker_order_id # NONE /\ broker_order_id \in DOMAIN kiteOrders
       /\ kiteOrders[broker_order_id].status = "OPEN"
    THEN /\ kiteOrders' = [kiteOrders EXCEPT ![broker_order_id].price =
                              Or(cmd.price, Or(cmd.trigger_price, @))]
         /\ orderUpdates' = Append(orderUpdates,
                [NoUpdate EXCEPT !.order_id = cmd.order_id,
                                 !.broker_order_id = broker_order_id,
                                 !.status = "MODIFIED"])
         /\ UNCHANGED brokerOrderMapping
    ELSE UNCHANGED <<kiteOrders, orderUpdates, brokerOrderMapping>>

\* KITE_BROKER_WEBSOCKET._publish_order_update_async(data)
publish_order_update_async(broker_order_id, status, filled_quantity, average_price) ==
    Append(orderUpdates,
        [NoUpdate EXCEPT
            !.order_id = HGetMapping(brokerOrderMapping, broker_order_id),
            !.broker_order_id = broker_order_id,
            !.status = status,
            !.filled_quantity = filled_quantity,
            !.average_price = average_price])

(* ------------------------------- client -------------------------------- *)
PlaceBracketCmd(request_id, side, qty, entry_price, target_price, stoploss_price) ==
    [NoCmd EXCEPT !.command = "PLACE_BRACKET", !.request_id = request_id,
                  !.strategy_id = "S1", !.instrument_id = "I1", !.side = side,
                  !.qty = qty, !.entry_price = entry_price,
                  !.target_price = target_price,
                  !.stoploss_price = stoploss_price]

\* the commands the client submits in Spec; those that name a bracket name
\* the first one created
ClientCmds ==
    {PlaceBracketCmd(1, "BUY", MaxQty, 2, 3, 1),
     [NoCmd EXCEPT !.command = "CANCEL_BRACKET", !.request_id = 2, !.bracket_id = 1],
     [NoCmd EXCEPT !.command = "MODIFY_SL_TP", !.request_id = 3, !.bracket_id = 1,
                   !.target_price = 4],
     [NoCmd EXCEPT !.command = "FORCE_EXIT", !.request_id = 4, !.bracket_id = 1],
     [NoCmd EXCEPT !.command = "FORCE_EXIT", !.request_id = 5, !.bracket_id = 1,
                   !.exit_price = 4],
     [NoCmd EXCEPT !.command = "FORCE_EXIT", !.request_id = 6, !.bracket_id = 1,
                   !.exit_price = BAD]}

\* last prices of the ticks: at or below the stoploss (1) and at the target (3)
TickPrices == {1, 3}

(* ------------------------------- actions ------------------------------- *)
SMStore ==
    [brackets |-> brackets, orders |-> orders,
     activeBrackets |-> activeBrackets, activeInstrument |-> activeInstrument,
     activeStrategy |-> activeStrategy,
     brokerOrderMapping |-> brokerOrderMapping,
     brokerCommands |-> brokerCommands, orderEvents |-> orderEvents,
     commandResponses |-> commandResponses, eventFault |-> {}]

SMWrite(t) ==
    /\ brackets' = t.brackets
    /\ orders' = t.orders
    /\ activeBrackets' = t.activeBrackets
    /\ activeInstrument' = t.activeInstrument
    /\ activeStrategy' = t.activeStrategy
    /\ brokerOrderMapping' = t.brokerOrderMapping
    /\ brokerCommands' = t.brokerCommands
    /\ orderEvents' = t.orderEvents
    /\ commandResponses' = t.commandResponses

smVars == <<brackets, orders, activeBrackets, activeInstrument, activeStrategy,
            brokerOrderMapping, brokerCommands, orderEvents, commandResponses>>
counters == <<clientCount, tickCount, pushCount>>

\* the API gateway enqueues a client command on api.commands
ClientSubmit ==
    /\ clientCount < MaxClientCmds
    /\ \E c \in ClientCmds : apiCommands' = Append(apiCommands, c)
    /\ clientCount' = clientCount + 1
    /\ UNCHANGED <<PAPER_TRADING, inFlight, pending, faultCount, smVars, riskRequests, stateCommands,
                   orderUpdates, kiteOrders, uuidCount, lastHandled, tickCount, pushCount>>

\* variant of ValidatorStep: a command that fails validation is answered and
\* forwarded all the same
ValidatorStep_forwardsRejected ==
    /\ apiCommands # <<>>
    /\ LET raw == Head(apiCommands)
           generated == raw.request_id = NONE
           request_id == IF generated THEN 1000 + uuidCount ELSE raw.request_id
           cmd == [raw EXCEPT !.request_id = request_id]
           error == validate_command(cmd)
       IN  /\ uuidCount' = IF generated THEN uuidCount + 1 ELSE uuidCount
           /\ riskRequests' = Append(riskRequests, cmd)
           /\ IF error # ""
              THEN commandResponses' = Append(commandResponses,
                          [request_id |-> request_id, success |-> FALSE,
                           message |-> error, data |-> NoDetails])
              ELSE UNCHANGED commandResponses
    /\ apiCommands' = Tail(apiCommands)
    /\ UNCHANGED <<PAPER_TRADING, inFlight, pending, faultCount, brackets, orders, activeBrackets,
                   activeInstrument, activeStrategy, brokerOrderMapping,
                   brokerCommands, orderEvents, stateCommands, orderUpdates,
                   kiteOrders, lastHandled, counters>>

\* order_02_command_service.process_commands, one entry
ValidatorStep ==
    /\ apiCommands # <<>>
    /\ LET raw == Head(apiCommands)
           generated == raw.request_id = NONE
           request_id == IF generated THEN 1000 + uuidCount ELSE raw.request_id
           cmd == [raw EXCEPT !.request_id = request_id]
           error == validate_command(cmd)
       IN  /\ uuidCount' = IF generated THEN uuidCount + 1 ELSE uuidCount
           /\ IF error # ""
              THEN /\ commandResponses' = Append(commandResponses,
                          [request_id |-> request_id, success |-> FALSE,
                           message |-> error, data |-> NoDetails])
                   /\ UNCHANGED riskRequests
              ELSE /\ riskRequests' = Append(riskRequests, cmd)
                   /\ UNCHANGED commandResponses
    /\ apiCommands' = Tail(apiCommands)
    /\ UNCHANGED <<PAPER_TRADING, inFlight, pending, faultCount, brackets, orders, activeBrackets,
                   activeInstrument, activeStrategy, brokerOrderMapping,
                   brokerCommands, orderEvents, stateCommands, orderUpdates,
                   kiteOrders, lastHandled, counters>>

\* order_03_risk_manager.process_risk_requests, one entry
RiskStep ==
    /\ riskRequests # <<>>
    /\ LET cmd == Head(riskRequests)
           error == validate_risk(cmd)
       IN  IF error # ""
           THEN /\ commandResponses' =
                      IF cmd.request_id = NONE THEN commandResponses
                      ELSE Append(commandResponses,
                             [request_id |-> cmd.request_id, success |-> FALSE,
                              message |-> error, data |-> NoDetails])
                /\ UNCHANGED stateCommands
           ELSE /\ stateCommands' = Append(stateCommands, cmd)
                /\ UNCHANGED commandResponses
    /\ riskRequests' = Tail(riskRequests)
    /\ UNCHANGED <<PAPER_TRADING, inFlight, pending, faultCount, brackets, orders, activeBrackets,
                   activeInstrument, activeStrategy, brokerOrderMapping,
                   brokerCommands, orderEvents, apiCommands, orderUpdates,
                   kiteOrders, uuidCount, lastHandled, counters>>

\* the bracket an order record points back to
BracketOfOrder(order_id) ==
    IF order_id \in DOMAIN orders THEN orders[order_id].bracket_id ELSE NONE

\* the state of the bracket with this id, as the handler finds it
StateOfBracket(bracket_id) ==
    IF bracket_id \in DOMAIN brackets THEN brackets[bracket_id].state ELSE "NONE"

\* order_04_state_manager.process_state_commands, one entry
StateCommandStep ==
    /\ inFlight.pc # "create_bracket"
    /\ stateCommands # <<>>
    /\ SMWrite(process_state_command(SMStore, Head(stateCommands)))
    /\ lastHandled' = [source |-> "state.commands", msg |-> Head(stateCommands),
                       pre_state |-> StateOfBracket(Head(stateCommands).bracket_id)]
    /\ stateCommands' = Tail(stateCommands)
    /\ UNCHANGED <<PAPER_TRADING, inFlight, pending, faultCount, apiCommands, riskRequests, orderUpdates,
                   kiteOrders, uuidCount, counters>>

\* order_04_state_manager.process_order_updates, one entry
OrderUpdateStep ==
    /\ inFlight.pc # "entry_fill"
    /\ orderUpdates # <<>>
    /\ SMWrite(handle_order_update(SMStore, Head(orderUpdates)))
    /\ lastHandled' = [source |-> "order.updates", msg |-> Head(orderUpdates),
                       pre_state |-> StateOfBracket(
                            BracketOfOrder(ResolveOrderId(SMStore, Head(orderUpdates))))]
    /\ orderUpdates' = Tail(orderUpdates)
    /\ UNCHANGED <<PAPER_TRADING, inFlight, pending, faultCount, apiCommands, riskRequests, stateCommands,
                   kiteOrders, uuidCount, counters>>

\* order_05_execution_engine.process_ticks, one tick of market.ticks
Tick ==
    /\ tickCount < MaxTicks
    /\ tickCount + pushCount < MaxEvents
    /\ \E instrument_id \in Instruments, price \in TickPrices :
         \E order \in Orderings(activeInstrument[instrument_id]) :
            stateCommands' = stateCommands
                \o evaluate_exits_for_tick(instrument_id, price, order)
    /\ tickCount' = tickCount + 1
    /\ UNCHANGED <<PAPER_TRADING, inFlight, pending, faultCount, smVars, apiCommands, riskRequests,
                   orderUpdates, kiteOrders, uuidCount, lastHandled, clientCount,
                   pushCount>>

\* order_01_broker_adapter.process_commands, one entry
GatewayStep ==
    /\ brokerCommands # <<>>
    /\ LET cmd == Head(brokerCommands) IN
         CASE cmd.command = "PLACE_ORDER" ->
                \E ok \in BOOLEAN : place_broker_order(cmd, ok)
           [] cmd.command = "CANCEL_ORDER" -> cancel_broker_order(cmd)
           [] cmd.command = "MODIFY_ORDER" -> modify_broker_order(cmd)
           [] OTHER -> UNCHANGED <<kiteOrders, orderUpdates, brokerOrderMapping>>
    /\ brokerCommands' = Tail(brokerCommands)
    /\ UNCHANGED <<PAPER_TRADING, inFlight, pending, faultCount, brackets, orders, activeBrackets,
                   activeInstrument, activeStrategy, orderEvents,
                   commandResponses, apiCommands, riskRequests, stateCommands,
                   uuidCount, lastHandled, counters>>

\* the broker changes an open order and pushes the change (on_order_update)
BrokerPush ==
    /\ pushCount < MaxPushes
    /\ tickCount + pushCount < MaxEvents
    /\ \E broker_order_id \in DOMAIN kiteOrders :
         /\ kiteOrders[broker_order_id].status = "OPEN"
         /\ \E status \in {"OPEN", "COMPLETE", "CANCELLED", "REJECTED"} :
              \E filled_quantity \in
                    IF status = "COMPLETE"
                    THEN 1..kiteOrders[broker_order_id].qty ELSE {0} :
                 /\ kiteOrders' = [kiteOrders EXCEPT ![broker_order_id].status = status]
                 /\ orderUpdates' = publish_order_update_async(
                        broker_order_id, status, filled_quantity,
                        IF filled_quantity > 0
                        THEN kiteOrders[broker_order_id].price ELSE 0)
    /\ pushCount' = pushCount + 1
    /\ UNCHANGED <<PAPER_TRADING, inFlight, pending, faultCount, smVars, apiCommands, riskRequests,
                   stateCommands, uuidCount, lastHandled, clientCount, tickCount>>

Init ==
    /\ PAPER_TRADING \in BOOLEAN
    /\ brackets = <<>>
    /\ orders = <<>>
    /\ activeBrackets = {}
    /\ activeInstrument = [i \in Instruments |-> {}]
    /\ activeStrategy = [st \in Strategies |-> {}]
    /\ brokerOrderMapping = <<>>
    /\ apiCommands = <<>>
    /\ riskRequests = <<>>
    /\ stateCommands = <<>>
    /\ brokerCommands = <<>>
    /\ orderUpdates = <<>>
    /\ orderEvents = <<>>
    /\ commandResponses = <<>>
    /\ kiteOrders = <<>>
    /\ uuidCount = 0
    /\ lastHandled = [source |-> "", msg |-> NoCmd, pre_state |-> "NONE"]
    /\ inFlight = NoTask
    /\ pending = [k \in ConsumedStreams |-> <<>>]
    /\ faultCount = 0
    /\ clientCount = 0
    /\ tickCount = 0
    /\ pushCount = 0

Next ==
    \/ ClientSubmit
    \/ ValidatorStep
    \/ RiskStep
    \/ StateCommandStep
    \/ OrderUpdateStep
    \/ Tick
    \/ GatewayStep
    \/ BrokerPush

Spec == Init /\ [][Next]_vars

(* ------------- the admission gates on their whole input set ------------ *)
\* field values a client may send: absent, not a number, zero, small prices
\* and prices at which qty * entry_price reaches and passes MAX_NOTIONAL
GatePrices == {NONE, BAD, 0, 1, 2, MAX_NOTIONAL \div 2, MAX_NOTIONAL}
GateQtys == {BAD} \cup (0..(MaxQty + 1))
GateSides == {"BUY", "SELL", "buy", "HOLD"}

GateCmds ==
    {PlaceBracketCmd(7, side, qty, e, tp, sl) :
        side \in GateSides, qty \in GateQtys, e \in GatePrices,
        tp \in GatePrices, sl \in GatePrices}
    \cup {PlaceBracketCmd(NONE, "BUY", 1, 2, 1, 1),
          [PlaceBracketCmd(7, "SELL", 1, 2, 1, MAX_NOTIONAL) EXCEPT
                !.command = "place_bracket"],
          [NoCmd EXCEPT !.command = "CANCEL_BRACKET", !.request_id = 7, !.bracket_id = 1],
          [NoCmd EXCEPT !.command = "MODIFY_SL_TP", !.request_id = 7, !.bracket_id = 1,
                        !.stoploss_price = 0],
          [NoCmd EXCEPT !.command = "FORCE_EXIT", !.request_id = 7, !.bracket_id = 1],
          [NoCmd EXCEPT !.command = "EXIT_HIT", !.request_id = 7, !.bracket_id = 1,
                        !.exit_type = "target"],
          [NoCmd EXCEPT !.request_id = 7]}

\* one client command is waiting on api.commands
InitGate ==
    /\ PAPER_TRADING \in BOOLEAN
    /\ brackets = <<>>
    /\ orders = <<>>
    /\ activeBrackets = {}
    /\ activeInstrument = [i \in Instruments |-> {}]
    /\ activeStrategy = [st \in Strategies |-> {}]
    /\ brokerOrderMapping = <<>>
    /\ apiCommands \in {<<c>> : c \in GateCmds}
    /\ riskRequests = <<>>
    /\ stateCommands = <<>>
    /\ brokerCommands = <<>>
    /\ orderUpdates = <<>>
    /\ orderEvents = <<>>
    /\ commandResponses = <<>>
    /\ kiteOrders = <<>>
    /\ uuidCount = 0
    /\ lastHandled = [source |-> "", msg |-> NoCmd, pre_state |-> "NONE"]
    /\ inFlight = NoTask
    /\ pending = [k \in ConsumedStreams |-> <<>>]
    /\ faultCount = 0
    /\ clientCount = 1
    /\ tickCount = 0
    /\ pushCount = 0

NextGate ==
    \/ ValidatorStep
    \/ RiskStep
    \/ StateCommandStep

SpecGate == InitGate /\ [][NextGate]_vars

(* ------ live mode, create_bracket interleaved with the other loops ------ *)
\* process_state_commands enters create_bracket for the PLACE_BRACKET at the
\* head of state.commands and runs it up to the await that follows
\* publish_broker_command; the entry is not acknowledged yet
CreateBracketPublish ==
    /\ inFlight = NoTask
    /\ stateCommands # <<>>
    /\ Head(stateCommands).command = "PLACE_BRACKET"
    /\ create_bracket_converts(Head(stateCommands))
    /\ SMWrite(create_bracket_published(SMStore, Head(stateCommands)))
    /\ inFlight' = [pc |-> "create_bracket",
                    bracket_id |-> generate_id(SMStore),
                    request_id |-> Head(stateCommands).request_id]
    /\ UNCHANGED <<PAPER_TRADING, pending, faultCount, apiCommands,
                   riskRequests, stateCommands, orderUpdates, kiteOrders,
                   uuidCount, lastHandled, counters>>

\* create_bracket resumes: final hset, response, then the loop's xack
CreateBracketEntryPlaced ==
    /\ inFlight.pc = "create_bracket"
    /\ SMWrite(create_bracket_entry_placed(SMStore, inFlight.bracket_id,
                                           inFlight.request_id))
    /\ lastHandled' = [source |-> "state.commands", msg |-> Head(stateCommands),
                       pre_state |-> "NONE"]
    /\ stateCommands' = Tail(stateCommands)
    /\ inFlight' = NoTask
    /\ UNCHANGED <<PAPER_TRADING, pending, faultCount, apiCommands,
                   riskRequests, orderUpdates, kiteOrders, uuidCount, counters>>

\* process_order_updates handles an entry fill up to the end of
\* mark_entry_filled and is suspended at the await of the bracket's re-read;
\* the entry is not acknowledged yet
OrderUpdateEntryFilled ==
    /\ inFlight = NoTask
    /\ orderUpdates # <<>>
    /\ EntryFillBracket(SMStore, Head(orderUpdates)) # NONE
    /\ SMWrite(handle_order_update_upto(SMStore, Head(orderUpdates), FALSE))
    /\ inFlight' = [pc |-> "entry_fill",
                    bracket_id |-> EntryFillBracket(SMStore, Head(orderUpdates)),
                    request_id |-> NONE]
    /\ UNCHANGED <<PAPER_TRADING, pending, faultCount, apiCommands,
                   riskRequests, stateCommands, orderUpdates, kiteOrders,
                   uuidCount, lastHandled, counters>>

\* handle_order_update resumes: it reads the bracket again, runs
\* place_exit_orders on what it read, and the loop sends the xack
OrderUpdatePlaceExits ==
    /\ inFlight.pc = "entry_fill"
    /\ SMWrite(place_exit_orders(SMStore, brackets[inFlight.bracket_id]))
    /\ lastHandled' = [source |-> "order.updates", msg |-> Head(orderUpdates),
                       pre_state |-> StateOfBracket(inFlight.bracket_id)]
    /\ orderUpdates' = Tail(orderUpdates)
    /\ inFlight' = NoTask
    /\ UNCHANGED <<PAPER_TRADING, pending, faultCount, apiCommands,
                   riskRequests, stateCommands, kiteOrders, uuidCount, counters>>

InitAsync ==
    /\ Init
    /\ ~PAPER_TRADING

NextAsync ==
    \/ ClientSubmit
    \/ ValidatorStep
    \/ RiskStep
    \/ StateCommandStep
    \/ CreateBracketPublish
    \/ CreateBracketEntryPlaced
    \/ OrderUpdateStep
    \/ GatewayStep

\* every consumer loop keeps running: worker() gathers the State Manager's two
\* loops on one event loop, the other services are processes of their own
FairAsync ==
    /\ WF_vars(ValidatorStep)
    /\ WF_vars(RiskStep)
    /\ WF_vars(StateCommandStep \/ CreateBracketPublish \/ CreateBracketEntryPlaced)
    /\ WF_vars(OrderUpdateStep)
    /\ WF_vars(GatewayStep)

SpecAsync == InitAsync /\ [][NextAsync]_vars /\ FairAsync

\* both modes, every service, and the State Manager's two loops suspended at
\* the two awaits above
NextWorker ==
    \/ ClientSubmit
    \/ ValidatorStep
    \/ RiskStep
    \/ StateCommandStep
    \/ CreateBracketPublish
    \/ CreateBracketEntryPlaced
    \/ OrderUpdateStep
    \/ OrderUpdateEntryFilled
    \/ OrderUpdatePlaceExits
    \/ Tick
    \/ GatewayStep
    \/ BrokerPush

SpecWorker == Init /\ [][NextWorker]_vars

(* ------------- the Broker Gateway on its whole command set ------------- *)
\* the PLACE_ORDER the State Manager emits for an entry order
GatewayPlaceCmds ==
    {[NoBrokerCmd EXCEPT !.command = "PLACE_ORDER", !.order_id = 1,
                         !.side = "BUY", !.qty = qty, !.order_type = "LIMIT",
                         !.price = 2] : qty \in 1..MaxQty}

\* CANCEL_ORDER and MODIFY_ORDER as cancel_broker_order and modify_broker_order
\* read them: order_id and broker_order_id each present or absent, the broker
\* id that of the first or of a never placed order
GatewayFollowCmds ==
    {[NoBrokerCmd EXCEPT !.command = command, !.order_id = order_id,
                         !.broker_order_id = broker_order_id,
                         !.price = IF command = "MODIFY_ORDER" THEN 3 ELSE NONE] :
        command \in {"CANCEL_ORDER", "MODIFY_ORDER"},
        order_id \in {NONE, 1},
        broker_order_id \in {NONE, 101, 102}}

\* a placement and two follow-up commands are waiting on broker.commands
InitBroker ==
    /\ PAPER_TRADING = FALSE
    /\ brackets = <<>>
    /\ orders = <<>>
    /\ activeBrackets = {}
    /\ activeInstrument = [i \in Instruments |-> {}]
    /\ activeStrategy = [st \in Strategies |-> {}]
    /\ brokerOrderMapping = <<>>
    /\ apiCommands = <<>>
    /\ riskRequests = <<>>
    /\ stateCommands = <<>>
    /\ brokerCommands \in {<<p, f, g>> : p \in GatewayPlaceCmds,
                                         f \in GatewayFollowCmds,
                                         g \in GatewayFollowCmds}
    /\ orderUpdates = <<>>
    /\ orderEvents = <<>>
    /\ commandResponses = <<>>
    /\ kiteOrders = <<>>
    /\ uuidCount = 0
    /\ lastHandled = [source |-> "", msg |-> NoCmd, pre_state |-> "NONE"]
    /\ inFlight = NoTask
    /\ pending = [k \in ConsumedStreams |-> <<>>]
    /\ faultCount = 0
    /\ clientCount = 0
    /\ tickCount = 0
    /\ pushCount = 0

NextBroker ==
    \/ GatewayStep
    \/ BrokerPush
    \/ OrderUpdateStep

SpecBroker == InitBroker /\ [][NextBroker]_vars

(* ------------ the Execution Engine on its whole input set -------------- *)
BracketStates ==
    {"CREATED", "ENTRY_PLACED", "ENTRY_FILLED", "EXIT_ORDERS_PLACED",
     "TARGET_FILLED", "STOPLOSS_FILLED", "COMPLETED", "CANCELLED", "REJECTED"}

\* prices below, at and above the tick prices
EnginePrices == 1..3

EmptyStore ==
    [brackets |-> <<>>, orders |-> <<>>, activeBrackets |-> {},
     activeInstrument |-> [i \in Instruments |-> {}],
     activeStrategy |-> [st \in Strategies |-> {}],
     brokerOrderMapping |-> <<>>, brokerCommands |-> <<>>,
     orderEvents |-> <<>>, commandResponses |-> <<>>, eventFault |-> {}]

\* the store with two brackets as create_bracket writes them.  Bracket 1 has
\* any side, any prices (MODIFY_SL_TP stores prices unvalidated) and any state;
\* bracket 2 is a BUY bracket that is, when elsewhere holds, a bracket of
\* another instrument: it is not in the index of the instrument that ticks
EngineStore(side, e, tp, sl, state1, state2, elsewhere) ==
    LET c1 == create_bracket_published(EmptyStore, PlaceBracketCmd(1, side, 1, e, tp, sl))
        c2 == create_bracket_published(c1, PlaceBracketCmd(2, "BUY", 1, 2, 3, 1))
        c3 == [c2 EXCEPT !.brackets =
                 HSetBracket(HSetBracket(@, 1, [state |-> state1]),
                             2, [state |-> state2])]
    IN  IF elsewhere
        THEN [c3 EXCEPT !.brackets = HSetBracket(@, 2, [instrument_id |-> "I2"]),
                        !.activeInstrument["I1"] = @ \ {2}]
        ELSE c3

InitEngine ==
    /\ PAPER_TRADING \in BOOLEAN
    /\ \E side \in {"BUY", "SELL"}, e \in EnginePrices, tp \in EnginePrices,
          sl \in EnginePrices, state1 \in BracketStates,
          state2 \in {"ENTRY_PLACED", "EXIT_ORDERS_PLACED"}, elsewhere \in BOOLEAN :
         LET st == EngineStore(side, e, tp, sl, state1, state2, elsewhere) IN
         /\ brackets = st.brackets
         /\ orders = st.orders
         /\ activeBrackets = st.activeBrackets
         /\ activeInstrument = st.activeInstrument
         /\ activeStrategy = st.activeStrategy
         /\ brokerOrderMapping = st.brokerOrderMapping
         /\ brokerCommands = st.brokerCommands
         /\ orderEvents = st.orderEvents
         /\ commandResponses = st.commandResponses
    /\ apiCommands = <<>>
    /\ riskRequests = <<>>
    /\ stateCommands = <<>>
    /\ orderUpdates = <<>>
    /\ kiteOrders = <<>>
    /\ uuidCount = 0
    /\ lastHandled = [source |-> "", msg |-> NoCmd, pre_state |-> "NONE"]
    /\ inFlight = NoTask
    /\ pending = [k \in ConsumedStreams |-> <<>>]
    /\ faultCount = 0
    /\ clientCount = 0
    /\ tickCount = 0
    /\ pushCount = 0

NextEngine == Tick

SpecEngine == InitEngine /\ [][NextEngine]_vars

(* ---------- Redis write failures and consumer crashes ------------------ *)
\* Redis refuses the writes of one Validator iteration (xadd of the forward or
\* of the response raises): the except branch logs, and the xack that follows
\* the try block is sent all the same
ValidatorWriteFails ==
    /\ faultCount < MaxFaults
    /\ apiCommands # <<>>
    /\ uuidCount' = IF Head(apiCommands).request_id = NONE
                    THEN uuidCount + 1 ELSE uuidCount
    /\ apiCommands' = Tail(apiCommands)
    /\ faultCount' = faultCount + 1
    /\ UNCHANGED <<PAPER_TRADING, inFlight, pending, smVars, riskRequests,
                   stateCommands, orderUpdates, kiteOrders, lastHandled,
                   clientCount, tickCount, pushCount>>

\* Redis refuses the writes of one State Manager command: the handler raises
\* at its first hset/sadd/xadd, process_state_command logs the exception, and
\* process_state_commands sends the xack that follows
StateCommandWriteFails ==
    /\ faultCount < MaxFaults
    /\ inFlight = NoTask
    /\ stateCommands # <<>>
    /\ process_state_command(SMStore, Head(stateCommands)) # SMStore
    /\ lastHandled' = [source |-> "state.commands", msg |-> Head(stateCommands),
                       pre_state |-> StateOfBracket(Head(stateCommands).bracket_id)]
    /\ stateCommands' = Tail(stateCommands)
    /\ faultCount' = faultCount + 1
    /\ UNCHANGED <<PAPER_TRADING, inFlight, pending, smVars, apiCommands,
                   riskRequests, orderUpdates, kiteOrders, uuidCount,
                   clientCount, tickCount, pushCount>>

\* the entries of a stream a consumer has not been given yet
Undelivered(k) ==
    CASE k = "api.commands" -> apiCommands
      [] k = "state.commands" -> stateCommands
      [] k = "order.updates" -> orderUpdates
      [] k = "broker.commands" -> brokerCommands

\* a consumer process dies after xreadgroup has returned the waiting entries
\* and before the first xack; it restarts (the group exists, xgroup_create is
\* refused and ignored) and reads with ">" again, which skips what the group
\* was already given
ConsumerCrash ==
    /\ faultCount < MaxFaults
    /\ inFlight = NoTask
    /\ \E k \in ConsumedStreams :
         /\ Undelivered(k) # <<>>
         /\ pending' = [pending EXCEPT ![k] = @ \o Undelivered(k)]
         /\ apiCommands' = IF k = "api.commands" THEN <<>> ELSE apiCommands
         /\ stateCommands' = IF k = "state.commands" THEN <<>> ELSE stateCommands
         /\ orderUpdates' = IF k = "order.updates" THEN <<>> ELSE orderUpdates
         /\ brokerCommands' = IF k = "broker.commands" THEN <<>> ELSE brokerCommands
    /\ faultCount' = faultCount + 1
    /\ UNCHANGED <<PAPER_TRADING, inFlight, brackets, orders, activeBrackets,
                   activeInstrument, activeStrategy, brokerOrderMapping,
                   orderEvents, commandResponses, riskRequests, kiteOrders,
                   uuidCount, lastHandled, clientCount, tickCount, pushCount>>

NextFault ==
    \/ ClientSubmit
    \/ ValidatorStep
    \/ RiskStep
    \/ StateCommandStep
    \/ OrderUpdateStep
    \/ GatewayStep
    \/ ValidatorWriteFails
    \/ StateCommandWriteFails
    \/ ConsumerCrash

\* every consumer loop, once (re)started, keeps running
FairFault ==
    /\ WF_vars(ValidatorStep)
    /\ WF_vars(RiskStep)
    /\ WF_vars(StateCommandStep)
    /\ WF_vars(OrderUpdateStep)
    /\ WF_vars(GatewayStep)

SpecFault == Init /\ [][NextFault]_vars /\ FairFault

(* ======================= properties of the OMS ========================= *)
TerminalOrderStates == {"FILLED", "CANCELLED", "REJECTED"}
ExitTypes == {"target", "stoploss"}

\* the order is in a terminal state, or was never created
OrderTerminal(order_id) ==
    order_id \notin DOMAIN orders \/ orders[order_id].state \in TerminalOrderStates

\* entries a step appended to a stream that only grows
Appended(before, after) == SubSeq(after, Len(before) + 1, Len(after))

\* the State Manager's command loop handles (pops) the head of state.commands
HandlesCommand(command, bracket_id) ==
    /\ stateCommands # <<>>
    /\ Upper(Head(stateCommands).command) = command
    /\ Head(stateCommands).bracket_id = bracket_id
    /\ stateCommands' = Tail(stateCommands)

\* the State Manager's update loop handles a COMPLETE/FILLED update for the order
HandlesFill(order_id) ==
    /\ orderUpdates # <<>>
    /\ Upper(Head(orderUpdates).status) \in {"COMPLETE", "FILLED"}
    /\ ResolveOrderId(SMStore, Head(orderUpdates)) = order_id
    /\ orderUpdates' = Tail(orderUpdates)

SameOrderRecord(order_id) ==
    /\ (order_id \in DOMAIN orders') = (order_id \in DOMAIN orders)
    /\ order_id \in DOMAIN orders => orders'[order_id] = orders[order_id]

EventCount(event_types, bracket_id) ==
    Cardinality({i \in DOMAIN orderEvents :
                    /\ orderEvents[i].event_type \in event_types
                    /\ orderEvents[i].bracket_id = bracket_id})

\* C1: in every reachable state the child order states agree with the bracket
\* state: in CREATED/ENTRY_PLACED only the entry order may be non-terminal, in
\* EXIT_ORDERS_PLACED the entry order is terminal, and in COMPLETED, CANCELLED
\* or REJECTED all three child orders are terminal or were never created.
C1_ChildOrdersConsistent ==
    \A b \in DOMAIN brackets :
        LET br == brackets[b] IN
        /\ br.state \in {"CREATED", "ENTRY_PLACED"} =>
              OrderTerminal(br.target_order_id) /\ OrderTerminal(br.stoploss_order_id)
        /\ br.state = "EXIT_ORDERS_PLACED" => OrderTerminal(br.entry_order_id)
        /\ br.state \in {"COMPLETED", "CANCELLED", "REJECTED"} =>
              /\ OrderTerminal(br.entry_order_id)
              /\ OrderTerminal(br.target_order_id)
              /\ OrderTerminal(br.stoploss_order_id)

\* C2: one-cancels-other exit.  When an EXIT_HIT(target|stoploss) command or a
\* broker fill for the target or stoploss order is handled for a bracket in
\* EXIT_ORDERS_PLACED, afterwards the named exit order is FILLED, its sibling is
\* CANCELLED, the bracket went through TARGET_FILLED / STOPLOSS_FILLED to
\* COMPLETED, it is in none of the three index sets, and in live mode a
\* CANCEL_ORDER for the sibling was appended to broker.commands.
C2_ExitHandled(b, exit_type) ==
    LET br == brackets[b]
        filled_order_id == IF exit_type = "target" THEN br.target_order_id
                           ELSE br.stoploss_order_id
    IN  /\ br.state = "EXIT_ORDERS_PLACED"
        /\ \/ /\ HandlesCommand("EXIT_HIT", b)
              /\ Head(stateCommands).exit_type = exit_type
              /\ Head(stateCommands).filled_price # BAD
           \/ HandlesFill(filled_order_id)

C2_ExitDone(b, exit_type) ==
    LET br == brackets[b]
        filled_order_id == IF exit_type = "target" THEN br.target_order_id
                           ELSE br.stoploss_order_id
        sibling_order_id == IF exit_type = "target" THEN br.stoploss_order_id
                            ELSE br.target_order_id
        passed == IF exit_type = "target" THEN "TARGET_FILLED" ELSE "STOPLOSS_FILLED"
    IN  /\ orders'[filled_order_id].state = "FILLED"
        /\ orders'[sibling_order_id].state = "CANCELLED"
        /\ brackets'[b].state = "COMPLETED"
        /\ brackets'[b].state_transitions =
                br.state_transitions \o <<passed, "COMPLETED">>
        /\ b \notin activeBrackets'
        /\ b \notin activeInstrument'[br.instrument_id]
        /\ b \notin activeStrategy'[br.strategy_id]
        /\ ~PAPER_TRADING =>
              \E i \in DOMAIN Appended(brokerCommands, brokerCommands') :
                 /\ Appended(brokerCommands, brokerCommands')[i].command = "CANCEL_ORDER"
                 /\ Appended(brokerCommands, brokerCommands')[i].order_id = sibling_order_id

C3_ExitHitIdempotent ==
    [][\A b \in DOMAIN brackets :
          (brackets[b].state = "COMPLETED" /\ HandlesCommand("EXIT_HIT", b)) =>
             UNCHANGED <<brackets, orders, activeBrackets, activeInstrument,
                         activeStrategy, orderEvents, brokerCommands>>]_vars

\* C4: ENTRY_HIT is idempotent.  Handling an ENTRY_HIT for a bracket whose
\* state is neither CREATED nor ENTRY_PLACED changes no bracket and no order,
\* publishes no event and emits no broker command.
C4_EntryHitIdempotent ==
    [][\A b \in DOMAIN brackets :
          (brackets[b].state \notin {"CREATED", "ENTRY_PLACED"}
           /\ HandlesCommand("ENTRY_HIT", b)) =>
             UNCHANGED <<brackets, orders, orderEvents, brokerCommands>>]_vars

\* the State Manager has just handled an ENTRY_HIT that found its bracket
\* already in EXIT_ORDERS_PLACED
C4_Witness ==
    /\ lastHandled.source = "state.commands"
    /\ lastHandled.msg.command = "ENTRY_HIT"
    /\ lastHandled.pre_state = "EXIT_ORDERS_PLACED"

\* C5: a COMPLETE/FILLED broker update for an entry order whose bracket is no
\* longer in CREATED/ENTRY_PLACED is a no-op on the bracket: its state,
\* filled_qty and remaining_qty and the target and stoploss order records stay
\* as they are, no ENTRY_FILLED or EXIT_ORDERS_PLACED event is published and no
\* PLACE_ORDER is emitted.
C5_LateEntryFillIsNoOp ==
    [][\A b \in DOMAIN brackets :
          (brackets[b].state \notin {"CREATED", "ENTRY_PLACED"}
           /\ HandlesFill(brackets[b].entry_order_id)) =>
             /\ brackets'[b].state = brackets[b].state
             /\ brackets'[b].filled_qty = brackets[b].filled_qty
             /\ brackets'[b].remaining_qty = brackets[b].remaining_qty
             /\ SameOrderRecord(brackets[b].target_order_id)
             /\ SameOrderRecord(brackets[b].stoploss_order_id)
             /\ \A i \in DOMAIN Appended(orderEvents, orderEvents') :
                   Appended(orderEvents, orderEvents')[i].event_type
                      \notin {"ENTRY_FILLED", "EXIT_ORDERS_PLACED"}
             /\ \A i \in DOMAIN Appended(brokerCommands, brokerCommands') :
                   Appended(brokerCommands, brokerCommands')[i].command # "PLACE_ORDER"]_vars

\* C6: a PLACE_BRACKET message handled twice creates one bracket: all
\* "Bracket created" responses to one request_id name the same bracket.
C6_DuplicatePlaceCreatesOneBracket ==
    \A i, j \in DOMAIN commandResponses :
        (/\ commandResponses[i].message = "Bracket created"
         /\ commandResponses[j].message = "Bracket created"
         /\ commandResponses[i].request_id = commandResponses[j].request_id)
        => commandResponses[i].data = commandResponses[j].data

\* C7: exit exclusivity.  For every bracket at most one exit fill is ever
\* recorded: at most one TARGET_FILLED / STOPLOSS_FILLED event in all, at most
\* one BRACKET_COMPLETED event, and target and stoploss are never both FILLED.
C7_AtMostOneExitFill ==
    \A b \in DOMAIN brackets :
        /\ EventCount({"TARGET_FILLED", "STOPLOSS_FILLED"}, b) <= 1
        /\ EventCount({"BRACKET_COMPLETED"}, b) <= 1
        /\ ~(/\ brackets[b].target_order_id \in DOMAIN orders
             /\ brackets[b].stoploss_order_id \in DOMAIN orders
             /\ orders[brackets[b].target_order_id].state = "FILLED"
             /\ orders[brackets[b].stoploss_order_id].state = "FILLED")

\* C8: in paper-trading mode nothing is ever appended to broker.commands; in
\* live mode handling a PLACE_BRACKET appends exactly one command, the
\* PLACE_ORDER of the new bracket's entry order.
C8_PaperModeSendsNothingToBroker ==
    [][/\ PAPER_TRADING => brokerCommands' = <<>>
       /\ (~PAPER_TRADING /\ HandlesCommand("PLACE_BRACKET", NONE)
           /\ Len(brackets') = Len(brackets) + 1) =>
             /\ Len(Appended(brokerCommands, brokerCommands')) = 1
             /\ Appended(brokerCommands, brokerCommands')[1].command = "PLACE_ORDER"
             /\ Appended(brokerCommands, brokerCommands')[1].order_id =
                   brackets'[Len(brackets')].entry_order_id]_vars

\* a paper-traded bracket ran its whole life: entry filled, exits placed, exit
\* executed, with nothing on broker.commands
C8_Witness ==
    /\ PAPER_TRADING
    /\ brokerCommands = <<>>
    /\ \E b \in DOMAIN brackets :
         /\ brackets[b].state = "COMPLETED"
         /\ EventCount({"EXIT_ORDERS_PLACED"}, b) = 1

NumericFields(cmd) ==
    /\ IsNumber(cmd.qty) /\ IsNumber(cmd.entry_price)
    /\ IsNumber(cmd.target_price) /\ IsNumber(cmd.stoploss_price)

\* BUY: target > entry > stoploss; SELL: target < entry < stoploss
PriceOrderConsistent(side, entry_price, target_price, stoploss_price) ==
    /\ IsNumber(entry_price) /\ IsNumber(target_price) /\ IsNumber(stoploss_price)
    /\ \/ Upper(side) = "BUY" /\ target_price > entry_price /\ entry_price > stoploss_price
       \/ Upper(side) = "SELL" /\ target_price < entry_price /\ entry_price < stoploss_price

\* a BUY or SELL PLACE_BRACKET whose prices are not ordered as its side requires
PriceOrderInconsistent(cmd) ==
    /\ Upper(cmd.command) = "PLACE_BRACKET"
    /\ Upper(cmd.side) \in {"BUY", "SELL"}
    /\ ~PriceOrderConsistent(cmd.side, cmd.entry_price, cmd.target_price,
                             cmd.stoploss_price)

\* the Risk Manager handles (pops) the head of risk.requests
RiskHandles == riskRequests # <<>> /\ riskRequests' = Tail(riskRequests)

RiskRejected(cmd) ==
    /\ stateCommands' = stateCommands
    /\ Len(commandResponses') = Len(commandResponses) + 1
    /\ commandResponses'[Len(commandResponses')].request_id = cmd.request_id
    /\ commandResponses'[Len(commandResponses')].success = FALSE

\* C9: a PLACE_BRACKET whose price ordering is inconsistent with its side is
\* rejected at the Risk Manager: a success=false response carrying its
\* request_id is emitted and state.commands is not appended to; no such command
\* is ever on state.commands, a bracket record is only ever created from a
\* consistent PLACE_BRACKET, and every order record, index member and order
\* event belongs to a bracket created that way.
C9_InconsistentPricesRejected ==
    [][/\ (RiskHandles /\ PriceOrderInconsistent(Head(riskRequests))) =>
              RiskRejected(Head(riskRequests))
       /\ \A i \in DOMAIN stateCommands' : ~PriceOrderInconsistent(stateCommands'[i])
       /\ Len(brackets') > Len(brackets) =>
              /\ stateCommands # <<>>
              /\ stateCommands' = Tail(stateCommands)
              /\ ~PriceOrderInconsistent(Head(stateCommands))
              /\ Len(brackets') = Len(brackets) + 1
       /\ \A b \in DOMAIN brackets' :
              PriceOrderConsistent(brackets'[b].side, brackets'[b].entry_price,
                                   brackets'[b].target_price,
                                   brackets'[b].stoploss_price)
       /\ \A o \in DOMAIN orders' : orders'[o].bracket_id \in DOMAIN brackets'
       /\ \A i \in DOMAIN orderEvents' : orderEvents'[i].bracket_id \in DOMAIN brackets'
       /\ activeBrackets' \subseteq DOMAIN brackets'
       /\ \A i \in Instruments : activeInstrument'[i] \subseteq DOMAIN brackets'
       /\ \A st \in Strategies : activeStrategy'[st] \subseteq DOMAIN brackets']_vars

\* a BUY bracket with target below entry was turned away by the Risk Manager
\* and left nothing behind
C9_Witness ==
    /\ apiCommands = <<>> /\ riskRequests = <<>> /\ stateCommands = <<>>
    /\ \E i \in DOMAIN commandResponses :
         /\ commandResponses[i].message = "Price order invalid for BUY"
         /\ commandResponses[i].success = FALSE
         /\ commandResponses[i].request_id = 7
    /\ brackets = <<>> /\ orders = <<>> /\ orderEvents = <<>>
    /\ activeBrackets = {}

\* the decision the Risk Manager is specified to take
RiskReference(cmd) ==
    \/ Upper(cmd.command) # "PLACE_BRACKET"
    \/ /\ NumericFields(cmd)
       /\ cmd.qty > 0 /\ cmd.entry_price > 0
       /\ cmd.target_price > 0 /\ cmd.stoploss_price > 0
       /\ PriceOrderConsistent(cmd.side, cmd.entry_price, cmd.target_price,
                               cmd.stoploss_price)
       /\ cmd.qty * cmd.entry_price <= MAX_NOTIONAL

\* C10: the Risk Manager approves a command exactly when the reference
\* predicate does: a PLACE_BRACKET needs qty and the three prices strictly
\* positive, prices ordered as the side requires and qty * entry_price at most
\* the ceiling (equal is approved); any other command is approved.  An approved
\* command is appended unchanged to state.commands, a rejected one is not.
C10_RiskDecisionMatchesReference ==
    [][RiskHandles =>
          IF RiskReference(Head(riskRequests))
          THEN /\ stateCommands' = Append(stateCommands, Head(riskRequests))
               /\ commandResponses' = commandResponses
          ELSE RiskRejected(Head(riskRequests))]_vars

\* a PLACE_BRACKET whose notional is exactly the ceiling went through the Risk
\* Manager and became a bracket
C10_Witness ==
    /\ riskRequests = <<>>
    /\ \E b \in DOMAIN brackets :
         /\ brackets[b].qty * brackets[b].entry_price = MAX_NOTIONAL
         /\ brackets[b].state = "ENTRY_PLACED"

\* the Validator handles (pops) the head of api.commands
ValidatorHandles == apiCommands # <<>> /\ apiCommands' = Tail(apiCommands)

\* the command as the Validator passes it on: a missing request_id is filled in
\* with a generated one, every other field is as submitted
SameFields(raw, cmd) ==
    /\ [cmd EXCEPT !.request_id = NONE] = [raw EXCEPT !.request_id = NONE]
    /\ cmd.request_id # NONE
    /\ raw.request_id # NONE => cmd.request_id = raw.request_id

ValidatorRejected(raw) ==
    /\ riskRequests' = riskRequests
    /\ Len(commandResponses') = Len(commandResponses) + 1
    /\ SubSeq(commandResponses', 1, Len(commandResponses)) = commandResponses
    /\ LET r == commandResponses'[Len(commandResponses')] IN
          /\ r.success = FALSE
          /\ r.message # ""
          /\ r.request_id # NONE
          /\ raw.request_id # NONE => r.request_id = raw.request_id

ValidatorForwarded(raw) ==
    /\ commandResponses' = commandResponses
    /\ Len(riskRequests') = Len(riskRequests) + 1
    /\ SubSeq(riskRequests', 1, Len(riskRequests)) = riskRequests
    /\ SameFields(raw, riskRequests'[Len(riskRequests')])

NotPositiveNumber(v) == ~IsNumber(v) \/ v <= 0

\* C12: the Validator does not forward to risk.requests any PLACE_BRACKET in
\* which qty, entry_price, target_price or stoploss_price is unparseable as a
\* number or is not strictly positive.
C12_ValidatorRejectsBadNumbers ==
    [][(/\ ValidatorHandles
        /\ Upper(Head(apiCommands).command) = "PLACE_BRACKET"
        /\ \/ NotPositiveNumber(Head(apiCommands).qty)
           \/ NotPositiveNumber(Head(apiCommands).entry_price)
           \/ NotPositiveNumber(Head(apiCommands).target_price)
           \/ NotPositiveNumber(Head(apiCommands).stoploss_price))
       => riskRequests' = riskRequests]_vars

\* the PLACE_ORDER commands for the order that are waiting on broker.commands
PlaceOrdersFor(order_id) ==
    {i \in DOMAIN brokerCommands :
        /\ brokerCommands[i].command = "PLACE_ORDER"
        /\ brokerCommands[i].order_id = order_id}

\* C13: exit orders are sized to the actual entry fill.  Whenever a bracket is
\* in EXIT_ORDERS_PLACED its target order and its stoploss order both have qty
\* equal to the bracket's filled_qty, and every PLACE_ORDER for them on
\* broker.commands carries that same quantity.
C13_ExitsSizedToFill ==
    \A b \in DOMAIN brackets :
        brackets[b].state = "EXIT_ORDERS_PLACED" =>
            LET br == brackets[b] IN
            /\ br.target_order_id \in DOMAIN orders
            /\ br.stoploss_order_id \in DOMAIN orders
            /\ orders[br.target_order_id].qty = br.filled_qty
            /\ orders[br.stoploss_order_id].qty = br.filled_qty
            /\ \A i \in PlaceOrdersFor(br.target_order_id)
                        \cup PlaceOrdersFor(br.stoploss_order_id) :
                  brokerCommands[i].qty = br.filled_qty

\* a live bracket of 2 was filled for 1: both exits are for 1, 1 remains, and
\* the PLACE_ORDER for the target asks for 1
C13_Witness ==
    \E b \in DOMAIN brackets :
        /\ brackets[b].state = "EXIT_ORDERS_PLACED"
        /\ brackets[b].qty = 2
        /\ brackets[b].filled_qty = 1
        /\ brackets[b].remaining_qty = 1
        /\ orders[brackets[b].target_order_id].qty = 1
        /\ orders[brackets[b].stoploss_order_id].qty = 1
        /\ \E i \in PlaceOrdersFor(brackets[b].target_order_id) :
              brokerCommands[i].qty = 1

\* C14: for every bracket on which an entry fill has been recorded (by
\* ENTRY_HIT or by a broker fill update), filled_qty + remaining_qty = qty in
\* every state from then on.
C14_FilledPlusRemainingIsQty ==
    \A b \in DOMAIN brackets :
        brackets[b].filled_qty # NONE =>
            /\ brackets[b].remaining_qty # NONE
            /\ brackets[b].filled_qty + brackets[b].remaining_qty = brackets[b].qty

\* a bracket of 2 filled for 1 has run to the end with the sum intact
C14_Witness ==
    \E b \in DOMAIN brackets :
        /\ brackets[b].state = "COMPLETED"
        /\ brackets[b].qty = 2
        /\ brackets[b].filled_qty = 1
        /\ brackets[b].remaining_qty = 1

ChildOrdersOf(b) ==
    {brackets[b].entry_order_id, brackets[b].target_order_id,
     brackets[b].stoploss_order_id}

\* C15: a bracket enters CANCELLED only from CREATED or ENTRY_PLACED.  A
\* CANCEL_BRACKET handled when the bracket is in any other state (entry already
\* filled, or terminal) leaves the bracket state as it is and leaves every
\* FILLED child order FILLED.
C15_CancelOnlyBeforeFill ==
    [][\A b \in DOMAIN brackets :
          (/\ brackets[b].state \notin {"CREATED", "ENTRY_PLACED"}
           /\ HandlesCommand("CANCEL_BRACKET", b)) =>
             /\ brackets'[b].state = brackets[b].state
             /\ \A o \in ChildOrdersOf(b) \cap DOMAIN orders :
                   orders[o].state = "FILLED" => orders'[o].state = "FILLED"]_vars

\* the State Manager's update loop handles an update with one of the statuses
\* for the order
HandlesUpdate(statuses, order_id) ==
    /\ orderUpdates # <<>>
    /\ Upper(Head(orderUpdates).status) \in statuses
    /\ ResolveOrderId(SMStore, Head(orderUpdates)) = order_id
    /\ orderUpdates' = Tail(orderUpdates)

\* C16: a bracket enters REJECTED only from ENTRY_PLACED.  A broker update
\* REJECTED, CANCELLED or CANCELED for the entry order that is handled when the
\* bracket is in ENTRY_FILLED, EXIT_ORDERS_PLACED or a terminal state leaves the
\* bracket state as it is and leaves the three active index sets as they are.
C16_RejectOnlyFromEntryPlaced ==
    [][\A b \in DOMAIN brackets :
          (/\ brackets[b].state \in {"ENTRY_FILLED", "EXIT_ORDERS_PLACED", "COMPLETED",
                                     "CANCELLED", "REJECTED"}
           /\ HandlesUpdate({"REJECTED", "CANCELLED", "CANCELED"},
                            brackets[b].entry_order_id)) =>
             /\ brackets'[b].state = brackets[b].state
             /\ UNCHANGED <<activeBrackets, activeInstrument, activeStrategy>>]_vars

\* the gateway's placement call for bracket b's entry order has failed: its
\* REJECTED update, carrying the broker's failure text, is on order.updates
EntryPlacementFailed(b) ==
    \E i \in 1..Len(orderUpdates) :
        /\ orderUpdates[i].order_id = EntryOrderIdOf(b)
        /\ orderUpdates[i].status = "REJECTED"
        /\ orderUpdates[i].status_message = "broker error"

\* bracket b is REJECTED, out of the three index sets, and a BRACKET_REJECTED
\* event with the broker's failure text is on order.events
RejectedOutcome(b) ==
    /\ b \in DOMAIN brackets
    /\ brackets[b].state = "REJECTED"
    /\ b \notin activeBrackets
    /\ \A i \in Instruments : b \notin activeInstrument[i]
    /\ \A st \in Strategies : b \notin activeStrategy[st]
    /\ \E i \in 1..Len(orderEvents) :
         /\ orderEvents[i].event_type = "BRACKET_REJECTED"
         /\ orderEvents[i].bracket_id = b
         /\ orderEvents[i].details.reason = "broker error"

\* C17: in live mode, once the gateway's placement call for a bracket's entry
\* order has failed, the bracket eventually is REJECTED and stays REJECTED,
\* with its id in none of the index sets and a BRACKET_REJECTED event carrying
\* the failure text, however the REJECTED update interleaves with the
\* PLACE_BRACKET handling
C17_FailedPlacementEndsRejected ==
    \A b \in 1..MaxClientCmds :
        EntryPlacementFailed(b) ~> [](RejectedOutcome(b))

\* the Validator acknowledges (removes) the head of api.commands
ValidatorAcks == apiCommands # <<>> /\ apiCommands' = Tail(apiCommands)

\* the State Manager's command loop acknowledges the head of state.commands
StateCommandAcks == stateCommands # <<>> /\ stateCommands' = Tail(stateCommands)

\* C18: a message is acknowledged only with its effect in place: the Validator
\* acknowledges a command only in a step that appended its forward to
\* risk.requests or its failure response, and the State Manager acknowledges a
\* command only in a step that leaves the store, the events, the broker
\* commands and the responses as its handler writes them
C18_AckOnlyAfterEffect ==
    [][ /\ ValidatorAcks =>
             \/ Len(riskRequests') = Len(riskRequests) + 1
             \/ Len(commandResponses') = Len(commandResponses) + 1
        /\ StateCommandAcks =>
             /\ brackets' = process_state_command(SMStore, Head(stateCommands)).brackets
             /\ orders' = process_state_command(SMStore, Head(stateCommands)).orders
             /\ orderEvents' = process_state_command(SMStore, Head(stateCommands)).orderEvents
             /\ brokerCommands' = process_state_command(SMStore, Head(stateCommands)).brokerCommands
             /\ commandResponses' = process_state_command(SMStore, Head(stateCommands)).commandResponses
      ]_vars

\* C19: an entry a consumer had read and not acknowledged when it crashed is
\* delivered again after the restart, so no stream keeps such an entry pending
\* forever
C19_PendingIsRedelivered ==
    \A k \in ConsumedStreams : (pending[k] # <<>>) ~> (pending[k] = <<>>)

\* the exit price force_exit is to use for the command: the caller's
\* exit_price when it parses, else the recorded entry fill price, else the
\* entry price
ForceExitPrice(cmd, bracket) ==
    IF IsNumber(cmd.exit_price) THEN cmd.exit_price
    ELSE IF bracket.filled_entry_price # NONE THEN bracket.filled_entry_price
    ELSE bracket.entry_price

\* the bracket is in none of the three index sets after the step
NotIndexedAfter(b) ==
    /\ b \notin activeBrackets'
    /\ \A i \in Instruments : b \notin activeInstrument'[i]
    /\ \A st \in Strategies : b \notin activeStrategy'[st]

NewBrokerCommands == Appended(brokerCommands, brokerCommands')

\* the step appends a broker command of this kind for the order
EmitsBrokerCommand(command, order_id) ==
    \E i \in 1..Len(NewBrokerCommands) :
        /\ NewBrokerCommands[i].command = command
        /\ NewBrokerCommands[i].order_id = order_id

\* C21: in live mode a CANCEL_BRACKET handled for a bracket in ENTRY_PLACED
\* appends a CANCEL_ORDER for the entry order to broker.commands in the step
\* that marks the bracket CANCELLED, so the entry order does not stay open at
\* the broker
C21_CancelBracketCancelsEntryAtBroker ==
    [][\A b \in DOMAIN brackets :
          (/\ LiveMode
           /\ brackets[b].state = "ENTRY_PLACED"
           /\ HandlesCommand("CANCEL_BRACKET", b)) =>
             /\ brackets'[b].state = "CANCELLED"
             /\ EmitsBrokerCommand("CANCEL_ORDER", brackets[b].entry_order_id)]_vars

\* C22: a MODIFY_SL_TP handled for an existing bracket stores the prices it
\* carries on the bracket, and in live mode with the bracket in
\* EXIT_ORDERS_PLACED it appends a MODIFY_ORDER to broker.commands for each
\* exit order whose price it changed
C22_ModifyAmendsBrokerOrders ==
    [][\A b \in DOMAIN brackets :
          (/\ HandlesCommand("MODIFY_SL_TP", b)
           /\ Head(stateCommands).target_price # BAD
           /\ Head(stateCommands).stoploss_price # BAD) =>
            LET cmd == Head(stateCommands) IN
             /\ cmd.target_price # NONE =>
                    brackets'[b].target_price = cmd.target_price
             /\ cmd.stoploss_price # NONE =>
                    brackets'[b].stoploss_price = cmd.stoploss_price
             /\ (LiveMode /\ brackets[b].state = "EXIT_ORDERS_PLACED") =>
                  /\ cmd.target_price # NONE =>
                       /\ orders'[brackets[b].target_order_id].price = cmd.target_price
                       /\ EmitsBrokerCommand("MODIFY_ORDER", brackets[b].target_order_id)
                  /\ cmd.stoploss_price # NONE =>
                       /\ orders'[brackets[b].stoploss_order_id].trigger_price
                             = cmd.stoploss_price
                       /\ EmitsBrokerCommand("MODIFY_ORDER",
                                             brackets[b].stoploss_order_id)]_vars

\* the gateway consumes the head of broker.commands, a command of this kind
HandlesBrokerCommand(command) ==
    /\ brokerCommands # <<>>
    /\ Head(brokerCommands).command = command
    /\ brokerCommands' = Tail(brokerCommands)

\* the updates the step appends to order.updates
NewOrderUpdates == Appended(orderUpdates, orderUpdates')

\* the orders the broker accepted in the step
NewKiteOrders == DOMAIN kiteOrders' \ DOMAIN kiteOrders

BrokerIdCalled(cmd) == get_broker_order_id(cmd.order_id, cmd.broker_order_id)

\* the broker call made for the command raises: the broker has no open order
\* under the id
BrokerCallFails(cmd) ==
    /\ BrokerIdCalled(cmd) # NONE
    /\ ~(/\ BrokerIdCalled(cmd) \in DOMAIN kiteOrders
         /\ kiteOrders[BrokerIdCalled(cmd)].status = "OPEN")

BrokerIdsOf(order_id) ==
    {b \in DOMAIN brokerOrderMapping : brokerOrderMapping[b] = order_id}

\* C25: the mapping resolves both ways.  (1) A broker push for a broker id the
\* gateway recorded at placement is appended to order.updates with the internal
\* order_id of that placement.  (2) A CANCEL_ORDER or MODIFY_ORDER that carries
\* only the internal order_id of an order placed and still open at the broker
\* makes the gateway call the broker for the recorded broker id: the step
\* appends the resulting update for that broker id, and a cancel leaves the
\* broker order CANCELLED.
C25_MappingIsBidirectional ==
    [][/\ pushCount' = pushCount + 1 =>
            \A i \in 1..Len(NewOrderUpdates) :
               /\ NewOrderUpdates[i].broker_order_id \in DOMAIN brokerOrderMapping
               /\ NewOrderUpdates[i].order_id =
                     brokerOrderMapping[NewOrderUpdates[i].broker_order_id]
       /\ \A command \in {"CANCEL_ORDER", "MODIFY_ORDER"} :
            (/\ HandlesBrokerCommand(command)
             /\ Head(brokerCommands).order_id # NONE
             /\ Head(brokerCommands).broker_order_id = NONE) =>
               \A b \in BrokerIdsOf(Head(brokerCommands).order_id) :
                  (b \in DOMAIN kiteOrders /\ kiteOrders[b].status = "OPEN") =>
                     /\ \E i \in 1..Len(NewOrderUpdates) :
                           NewOrderUpdates[i].broker_order_id = b
                     /\ command = "CANCEL_ORDER" =>
                           kiteOrders'[b].status = "CANCELLED"]_vars

\* the Execution Engine handles one tick
TickStep == tickCount' = tickCount + 1

\* the commands the step appends to state.commands
NewStateCommands == Appended(stateCommands, stateCommands')

\* where the step's commands of this kind for the bracket are
HitIndexes(command, b) ==
    {i \in 1..Len(NewStateCommands) :
        /\ NewStateCommands[i].command = command
        /\ NewStateCommands[i].bracket_id = b}

TargetReached(bracket, p) ==
    \/ bracket.side = "BUY" /\ p >= bracket.target_price
    \/ bracket.side = "SELL" /\ p <= bracket.target_price

StoplossReached(bracket, p) ==
    \/ bracket.side = "BUY" /\ p <= bracket.stoploss_price
    \/ bracket.side = "SELL" /\ p >= bracket.stoploss_price

EntryReached(bracket, p) ==
    \/ bracket.side = "BUY" /\ p <= bracket.entry_price
    \/ bracket.side = "SELL" /\ p >= bracket.entry_price

\* the step's EXIT_HIT commands for the bracket are exactly one, of this type
\* and at this price
OneExitHit(b, exit_type, p) ==
    /\ Cardinality(HitIndexes("EXIT_HIT", b)) = 1
    /\ \A i \in HitIndexes("EXIT_HIT", b) :
          /\ NewStateCommands[i].exit_type = exit_type
          /\ NewStateCommands[i].filled_price = p

C27_EntryTrigger ==
    [][TickStep =>
         /\ \E i \in Instruments, p \in TickPrices :
               \A b \in DOMAIN brackets :
                  IF /\ PAPER_TRADING
                     /\ b \in activeInstrument[i]
                     /\ brackets[b].state = "ENTRY_PLACED"
                     /\ EntryReached(brackets[b], p)
                  THEN /\ Cardinality(HitIndexes("ENTRY_HIT", b)) = 1
                       /\ \A j \in HitIndexes("ENTRY_HIT", b) :
                             NewStateCommands[j].filled_price = p
                  ELSE HitIndexes("ENTRY_HIT", b) = {}
         /\ LiveMode =>
               \A j \in 1..Len(NewStateCommands) :
                  NewStateCommands[j].command # "ENTRY_HIT"]_vars

\* in paper mode a SELL bracket waiting in ENTRY_PLACED got an ENTRY_HIT at a
\* price at or above its entry price
C27_Witness ==
    /\ PAPER_TRADING
    /\ 1 \in DOMAIN brackets
    /\ brackets[1].side = "SELL"
    /\ brackets[1].state = "ENTRY_PLACED"
    /\ \E i \in 1..Len(stateCommands) :
          /\ stateCommands[i].command = "ENTRY_HIT"
          /\ stateCommands[i].bracket_id = 1
          /\ stateCommands[i].filled_price >= brackets[1].entry_price

\* the stage of the bracket life cycle an event belongs to, 0 for an event
\* outside the life cycle's sequence
EventStage(event_type) ==
    CASE event_type = "BRACKET_CREATED" -> 1
      [] event_type = "ENTRY_PLACED" -> 2
      [] event_type = "ENTRY_FILLED" -> 3
      [] event_type = "EXIT_ORDERS_PLACED" -> 4
      [] event_type \in {"TARGET_PLACED", "STOPLOSS_PLACED"} -> 5
      [] event_type \in {"TARGET_FILLED", "STOPLOSS_FILLED"} -> 6
      [] event_type = "BRACKET_COMPLETED" -> 7
      [] OTHER -> 0

\* C28: on order.events the life-cycle events of a bracket appear in the order
\* BRACKET_CREATED, ENTRY_PLACED, ENTRY_FILLED, EXIT_ORDERS_PLACED,
\* TARGET_PLACED and STOPLOSS_PLACED, TARGET_FILLED or STOPLOSS_FILLED,
\* BRACKET_COMPLETED: no event of a later stage precedes an event of an earlier
\* stage of the same bracket; and every "Bracket created" response carries the
\* id of a stored bracket
C28_EventsInLifeCycleOrder ==
    /\ \A i, j \in 1..Len(orderEvents) :
          (/\ i < j
           /\ orderEvents[i].bracket_id = orderEvents[j].bracket_id
           /\ EventStage(orderEvents[i].event_type) > 0
           /\ EventStage(orderEvents[j].event_type) > 0) =>
              EventStage(orderEvents[i].event_type)
                 <= EventStage(orderEvents[j].event_type)
    /\ \A r \in 1..Len(commandResponses) :
          (commandResponses[r].success /\ commandResponses[r].message = "Bracket created")
             => commandResponses[r].data.bracket_id \in DOMAIN brackets

(* ------------------- lost events (order.events append fails) ------------ *)
\* the event types a handler run publishes, from the store before and after it
PublishedTypes(before, after) ==
    {Appended(before.orderEvents, after.orderEvents)[i].event_type :
        i \in 1..(Len(after.orderEvents) - Len(before.orderEvents))}

\* the appends that fail during one handler run: those of one event type the
\* run publishes, or all of them
EventFaults(types) == {{e} : e \in types} \cup {types}

\* the store as a handler sees it when the appends of event types F raise
SMStoreLosing(F) == [SMStore EXCEPT !.eventFault = F]

\* process_state_commands, one entry, during which an xadd to order.events raises
\* inside publish_event
StateCommandEventLost ==
    /\ faultCount < MaxFaults
    /\ inFlight.pc # "create_bracket"
    /\ stateCommands # <<>>
    /\ LET intact == process_state_command(SMStore, Head(stateCommands)) IN
       \E F \in EventFaults(PublishedTypes(SMStore, intact)) :
         LET t == process_state_command(SMStoreLosing(F), Head(stateCommands)) IN
         /\ t.orderEvents # intact.orderEvents
         /\ SMWrite(t)
    /\ lastHandled' = [source |-> "state.commands", msg |-> Head(stateCommands),
                       pre_state |-> StateOfBracket(Head(stateCommands).bracket_id)]
    /\ stateCommands' = Tail(stateCommands)
    /\ faultCount' = faultCount + 1
    /\ UNCHANGED <<PAPER_TRADING, inFlight, pending, apiCommands, riskRequests,
                   orderUpdates, kiteOrders, uuidCount, counters>>

\* process_order_updates, one entry, during which an xadd to order.events raises
\* inside publish_event
OrderUpdateEventLost ==
    /\ faultCount < MaxFaults
    /\ inFlight.pc # "entry_fill"
    /\ orderUpdates # <<>>
    /\ LET intact == handle_order_update(SMStore, Head(orderUpdates)) IN
       \E F \in EventFaults(PublishedTypes(SMStore, intact)) :
         LET t == handle_order_update(SMStoreLosing(F), Head(orderUpdates)) IN
         /\ t.orderEvents # intact.orderEvents
         /\ SMWrite(t)
    /\ lastHandled' = [source |-> "order.updates", msg |-> Head(orderUpdates),
                       pre_state |-> StateOfBracket(
                            BracketOfOrder(ResolveOrderId(SMStore, Head(orderUpdates))))]
    /\ orderUpdates' = Tail(orderUpdates)
    /\ faultCount' = faultCount + 1
    /\ UNCHANGED <<PAPER_TRADING, inFlight, pending, apiCommands, riskRequests,
                   stateCommands, kiteOrders, uuidCount, counters>>

\* the client commands the Validator and the Risk Manager let through
ApprovedCmds ==
    {c \in ClientCmds : validate_command(c) = "" /\ validate_risk(c) = ""}

\* the clients' commands have passed the Validator and the Risk Manager and wait
\* on state.commands; the State Manager has handled none of them yet
InitEventFault ==
    /\ PAPER_TRADING \in BOOLEAN
    /\ brackets = <<>>
    /\ orders = <<>>
    /\ activeBrackets = {}
    /\ activeInstrument = [i \in Instruments |-> {}]
    /\ activeStrategy = [st \in Strategies |-> {}]
    /\ brokerOrderMapping = <<>>
    /\ apiCommands = <<>>
    /\ riskRequests = <<>>
    /\ stateCommands \in [1..MaxClientCmds -> ApprovedCmds]
    /\ brokerCommands = <<>>
    /\ orderUpdates = <<>>
    /\ orderEvents = <<>>
    /\ commandResponses = <<>>
    /\ kiteOrders = <<>>
    /\ uuidCount = 0
    /\ lastHandled = [source |-> "", msg |-> NoCmd, pre_state |-> "NONE"]
    /\ inFlight = NoTask
    /\ pending = [k \in ConsumedStreams |-> <<>>]
    /\ faultCount = 0
    /\ clientCount = MaxClientCmds
    /\ tickCount = 0
    /\ pushCount = 0

\* the State Manager, the Execution Engine and the Broker Gateway, up to and
\* including the handler run in which an append to order.events fails
NextEventFault ==
    \/ faultCount = 0 /\ StateCommandStep
    \/ faultCount = 0 /\ OrderUpdateStep
    \/ faultCount = 0 /\ Tick
    \/ faultCount = 0 /\ GatewayStep
    \/ faultCount = 0 /\ BrokerPush
    \/ StateCommandEventLost
    \/ OrderUpdateEventLost

SpecEventFault == InitEventFault /\ [][NextEventFault]_vars

\* the State Manager's streams and keys
StoreOf(t) ==
    <<t.brackets, t.orders, t.activeBrackets, t.activeInstrument, t.activeStrategy,
      t.brokerOrderMapping, t.brokerCommands, t.commandResponses>>

\* C29: whenever the State Manager handles a command or an order update, with or
\* without an append to order.events failing inside the handler, the bracket
\* and order hashes, the three indexes, the broker mapping, the broker commands
\* and the response written are exactly those of the handler run in which
\* every append succeeds; only order.events may differ.
C29_LostEventChangesNothingElse ==
    [][/\ (stateCommands # <<>> /\ stateCommands' = Tail(stateCommands)) =>
            StoreOf(SMStore)' =
               StoreOf(process_state_command(SMStore, Head(stateCommands)))
       /\ (orderUpdates # <<>> /\ orderUpdates' = Tail(orderUpdates)) =>
            StoreOf(SMStore)' =
               StoreOf(handle_order_update(SMStore, Head(orderUpdates)))]_vars

\* an exit was handled while its events were lost: the bracket is COMPLETED
\* and off the active index, and order.events holds no BRACKET_COMPLETED for it
C29_Witness ==
    /\ faultCount = 1
    /\ \E b \in DOMAIN brackets :
         /\ brackets[b].state = "COMPLETED"
         /\ b \notin activeBrackets
         /\ \A i \in DOMAIN orderEvents :
               ~(orderEvents[i].bracket_id = b
                 /\ orderEvents[i].event_type = "BRACKET_COMPLETED")

\* C30: the State Manager handles approved commands and broker order updates
\* strictly one at a time: while a command handler is suspended partway
\* through its writes no order.updates entry is handled, and while an
\* order-update handler is suspended no state.commands entry is handled.
C30_HandlersRunOneAtATime ==
    [][/\ inFlight.pc = "create_bracket" =>
            ~(orderUpdates # <<>> /\ orderUpdates' = Tail(orderUpdates))
       /\ inFlight.pc = "entry_fill" =>
            ~(stateCommands # <<>> /\ stateCommands' = Tail(stateCommands))]_vars

\* the position of a bracket state along
\* CREATED < ENTRY_PLACED < ENTRY_FILLED < EXIT_ORDERS_PLACED < terminal
StateRank(state) ==
    CASE state = "CREATED" -> 1
      [] state = "ENTRY_PLACED" -> 2
      [] state = "ENTRY_FILLED" -> 3
      [] state = "EXIT_ORDERS_PLACED" -> 4
      [] OTHER -> 5

\* C31: no lost update between PLACE_BRACKET handling and broker updates: when
\* create_bracket resumes after a broker update for the entry order was
\* applied, the state that update set stays, and in no step does a bracket's
\* state move backwards along CREATED < ENTRY_PLACED < ENTRY_FILLED <
\* EXIT_ORDERS_PLACED < terminal.
C31_NoLostUpdate ==
    [][\A b \in DOMAIN brackets :
          /\ StateRank(brackets'[b].state) >= StateRank(brackets[b].state)
          /\ (inFlight.pc = "create_bracket" /\ inFlight' = NoTask
                /\ inFlight.bracket_id = b /\ brackets[b].state # "CREATED") =>
                brackets'[b].state = brackets[b].state]_vars

\* the sequence before is a prefix of the sequence after
IsPrefix(before, after) ==
    /\ Len(before) <= Len(after)
    /\ SubSeq(after, 1, Len(before)) = before

\* C32: the state_transitions log is append-only and complete: after every
\* State Manager operation each bracket's log has its previous log as a prefix
\* and its last entry is the bracket's current state, for every transition,
\* the one to REJECTED included.
C32_TransitionsLogIsComplete ==
    [][\A b \in DOMAIN brackets' :
          /\ b \in DOMAIN brackets =>
                IsPrefix(brackets[b].state_transitions,
                         brackets'[b].state_transitions)
          /\ brackets'[b].state_transitions # <<>>
          /\ brackets'[b].state_transitions[Len(brackets'[b].state_transitions)]
                = brackets'[b].state]_vars

(* ------------- fills of any reported quantity (order updates) ----------- *)
\* the broker's websocket pushes an order update whose filled_quantity is
\* whatever the broker reports, 0 and more than the order's quantity included:
\* _publish_order_update_async forwards int(data.get("filled_quantity", 0))
BrokerPushAnyQuantity ==
    /\ pushCount < MaxPushes
    /\ tickCount + pushCount < MaxEvents
    /\ \E broker_order_id \in DOMAIN kiteOrders :
         /\ kiteOrders[broker_order_id].status = "OPEN"
         /\ \E status \in {"OPEN", "COMPLETE", "CANCELLED", "REJECTED"} :
              \E filled_quantity \in
                    IF status = "COMPLETE"
                    THEN 0..(kiteOrders[broker_order_id].qty + 1) ELSE {0} :
                 /\ kiteOrders' = [kiteOrders EXCEPT ![broker_order_id].status = status]
                 /\ orderUpdates' = publish_order_update_async(
                        broker_order_id, status, filled_quantity,
                        IF filled_quantity > 0
                        THEN kiteOrders[broker_order_id].price ELSE 0)
    /\ pushCount' = pushCount + 1
    /\ UNCHANGED <<PAPER_TRADING, inFlight, pending, faultCount, smVars, apiCommands, riskRequests,
                   stateCommands, uuidCount, lastHandled, clientCount, tickCount>>

\* one approved PLACE_BRACKET waits on state.commands
InitFill ==
    /\ PAPER_TRADING \in BOOLEAN
    /\ brackets = <<>>
    /\ orders = <<>>
    /\ activeBrackets = {}
    /\ activeInstrument = [i \in Instruments |-> {}]
    /\ activeStrategy = [st \in Strategies |-> {}]
    /\ brokerOrderMapping = <<>>
    /\ apiCommands = <<>>
    /\ riskRequests = <<>>
    /\ stateCommands \in {<<c>> : c \in {a \in ApprovedCmds : a.command = "PLACE_BRACKET"}}
    /\ brokerCommands = <<>>
    /\ orderUpdates = <<>>
    /\ orderEvents = <<>>
    /\ commandResponses = <<>>
    /\ kiteOrders = <<>>
    /\ uuidCount = 0
    /\ lastHandled = [source |-> "", msg |-> NoCmd, pre_state |-> "NONE"]
    /\ inFlight = NoTask
    /\ pending = [k \in ConsumedStreams |-> <<>>]
    /\ faultCount = 0
    /\ clientCount = 1
    /\ tickCount = 0
    /\ pushCount = 0

NextFill ==
    \/ StateCommandStep
    \/ OrderUpdateStep
    \/ Tick
    \/ GatewayStep
    \/ BrokerPushAnyQuantity

SpecFill == InitFill /\ [][NextFill]_vars

\* C33: ENTRY_FILLED is transient: a handler that records an entry fill places
\* the exit orders in the same run, so whenever a handler has finished no
\* bracket is in ENTRY_FILLED, whatever filled quantity was reported.
C33_EntryFilledIsTransient ==
    \A b \in DOMAIN brackets : brackets[b].state # "ENTRY_FILLED"

TerminalStates == {"COMPLETED", "CANCELLED", "REJECTED"}

\* C34: terminal bracket states are absorbing: once a bracket is COMPLETED,
\* CANCELLED or REJECTED, no later command and no later broker order update
\* changes its state field.
C34_TerminalStatesAreAbsorbing ==
    [][\A b \in DOMAIN brackets :
          brackets[b].state \in TerminalStates =>
             brackets'[b].state = brackets[b].state]_vars

ActiveStates == {"CREATED", "ENTRY_PLACED", "ENTRY_FILLED", "EXIT_ORDERS_PLACED"}

\* C35: active-index consistency: whenever no State Manager handler is in
\* progress, a bracket is in the all-active set iff it is in its instrument's
\* set, iff it is in its strategy's set, iff its state is one of CREATED,
\* ENTRY_PLACED, ENTRY_FILLED, EXIT_ORDERS_PLACED.
C35_ActiveIndexesAreConsistent ==
    inFlight = NoTask =>
       \A b \in DOMAIN brackets :
          /\ (b \in activeBrackets) <=>
                (b \in activeInstrument[brackets[b].instrument_id])
          /\ (b \in activeBrackets) <=>
                (b \in activeStrategy[brackets[b].strategy_id])
          /\ (b \in activeBrackets) <=> (brackets[b].state \in ActiveStates)

FinalOrderStates == {"FILLED", "CANCELLED", "REJECTED"}

\* C36: order states never regress: once an order's state is FILLED, CANCELLED
\* or REJECTED, no later broker update, CANCEL_BRACKET or exit changes it.
C36_FinalOrderStatesStay ==
    [][\A o \in DOMAIN orders :
          orders[o].state \in FinalOrderStates =>
             orders'[o].state = orders[o].state]_vars

(* ------------------- MODIFY_SL_TP with any prices ----------------------- *)
\* a BUY and a SELL bracket the Risk Manager approves
ModifyPlaceCmds ==
    {PlaceBracketCmd(1, "BUY", MaxQty, 2, 3, 1),
     PlaceBracketCmd(1, "SELL", MaxQty, 2, 1, 3)}

\* the prices a client may send in MODIFY_SL_TP: absent, or any positive price
ModifyPrices == {NONE} \cup (1..4)

\* MODIFY_SL_TP commands for bracket 1 as clients send them
ModifyCmds ==
    {[NoCmd EXCEPT !.command = "MODIFY_SL_TP", !.request_id = 3, !.bracket_id = 1,
                   !.target_price = tp, !.stoploss_price = sl] :
        tp \in ModifyPrices, sl \in ModifyPrices}

\* a PLACE_BRACKET and a MODIFY_SL_TP wait on api.commands
InitModify ==
    /\ PAPER_TRADING \in BOOLEAN
    /\ brackets = <<>>
    /\ orders = <<>>
    /\ activeBrackets = {}
    /\ activeInstrument = [i \in Instruments |-> {}]
    /\ activeStrategy = [st \in Strategies |-> {}]
    /\ brokerOrderMapping = <<>>
    /\ apiCommands \in {<<p, m>> : p \in ModifyPlaceCmds, m \in ModifyCmds}
    /\ riskRequests = <<>>
    /\ stateCommands = <<>>
    /\ brokerCommands = <<>>
    /\ orderUpdates = <<>>
    /\ orderEvents = <<>>
    /\ commandResponses = <<>>
    /\ kiteOrders = <<>>
    /\ uuidCount = 0
    /\ lastHandled = [source |-> "", msg |-> NoCmd, pre_state |-> "NONE"]
    /\ inFlight = NoTask
    /\ pending = [k \in ConsumedStreams |-> <<>>]
    /\ faultCount = 0
    /\ clientCount = 2
    /\ tickCount = 0
    /\ pushCount = 0

NextModify ==
    \/ ValidatorStep
    \/ RiskStep
    \/ StateCommandStep

SpecModify == InitModify /\ [][NextModify]_vars

\* C37: the side-consistent price ordering holds for every persisted bracket in
\* every reachable state: BUY implies target > entry > stoploss and SELL implies
\* target < entry < stoploss, also after a MODIFY_SL_TP that passed the
\* Validator and the Risk Manager.
C37_PersistedPricesAreOrdered ==
    \A b \in DOMAIN brackets :
       /\ brackets[b].side = "BUY" =>
             /\ brackets[b].target_price > brackets[b].entry_price
             /\ brackets[b].entry_price > brackets[b].stoploss_price
       /\ brackets[b].side = "SELL" =>
             /\ brackets[b].target_price < brackets[b].entry_price
             /\ brackets[b].entry_price < brackets[b].stoploss_price

\* C38: an exit order never records more filled than it was sized for: when
\* EXIT_HIT or FORCE_EXIT executes the exit of a bracket whose exit orders are
\* placed, the filled exit order's filled_qty equals that order's qty (the
\* bracket's actual entry fill), also after a partial entry fill.
C38_ExitFillEqualsOrderQty ==
    [][\A b \in DOMAIN brackets :
          ((HandlesCommand("EXIT_HIT", b) \/ HandlesCommand("FORCE_EXIT", b))
             /\ brackets[b].state = "EXIT_ORDERS_PLACED") =>
             \A o \in {brackets[b].target_order_id, brackets[b].stoploss_order_id} :
                (o \in DOMAIN orders' /\ orders'[o].state = "FILLED") =>
                   orders'[o].filled_qty = orders'[o].qty]_vars

(* ------------------- fill triggers sent by a client --------------------- *)
\* the command types validate_command accepts
ClientCommandTypes == {"PLACE_BRACKET", "CANCEL_BRACKET", "MODIFY_SL_TP", "FORCE_EXIT"}

\* commands a client appends to api.commands after its PLACE_BRACKET: the
\* Execution Engine's two commands in either case, with and without a
\* request_id, an unknown type, and a CANCEL_BRACKET
InjectCmds ==
    {[NoCmd EXCEPT !.command = c, !.request_id = r, !.bracket_id = 1,
                   !.filled_price = 2] :
        c \in {"ENTRY_HIT", "entry_hit"}, r \in {7, NONE}}
    \cup {[NoCmd EXCEPT !.command = c, !.request_id = r, !.bracket_id = 1,
                        !.exit_type = x, !.filled_price = 3] :
        c \in {"EXIT_HIT", "exit_hit"}, r \in {7, NONE},
        x \in {"target", "stoploss"}}
    \cup {[NoCmd EXCEPT !.command = "ORDER_UPDATE", !.request_id = 7, !.bracket_id = 1],
          [NoCmd EXCEPT !.command = "CANCEL_BRACKET", !.request_id = 7, !.bracket_id = 1]}

\* a PLACE_BRACKET and one more client command wait on api.commands
InitInject ==
    /\ PAPER_TRADING \in BOOLEAN
    /\ brackets = <<>>
    /\ orders = <<>>
    /\ activeBrackets = {}
    /\ activeInstrument = [i \in Instruments |-> {}]
    /\ activeStrategy = [st \in Strategies |-> {}]
    /\ brokerOrderMapping = <<>>
    /\ apiCommands \in {<<PlaceBracketCmd(1, "BUY", MaxQty, 2, 3, 1), x>> : x \in InjectCmds}
    /\ riskRequests = <<>>
    /\ stateCommands = <<>>
    /\ brokerCommands = <<>>
    /\ orderUpdates = <<>>
    /\ orderEvents = <<>>
    /\ commandResponses = <<>>
    /\ kiteOrders = <<>>
    /\ uuidCount = 0
    /\ lastHandled = [source |-> "", msg |-> NoCmd, pre_state |-> "NONE"]
    /\ inFlight = NoTask
    /\ pending = [k \in ConsumedStreams |-> <<>>]
    /\ faultCount = 0
    /\ clientCount = 2
    /\ tickCount = 0
    /\ pushCount = 0

NextInject ==
    \/ ValidatorStep
    \/ RiskStep
    \/ StateCommandStep
    \/ OrderUpdateStep
    \/ Tick
    \/ GatewayStep
    \/ BrokerPush

SpecInject == InitInject /\ [][NextInject]_vars

\* the Validator takes a command of a type clients may not send
ValidatorTakesForeign ==
    /\ apiCommands # <<>>
    /\ apiCommands' = Tail(apiCommands)
    /\ Upper(Head(apiCommands).command) \notin ClientCommandTypes

\* C39: clients cannot inject fill triggers: a command of a type other than
\* PLACE_BRACKET, CANCEL_BRACKET, MODIFY_SL_TP, FORCE_EXIT taken from
\* api.commands is answered with a failure response and reaches neither
\* risk.requests nor state.commands, and every ENTRY_HIT/EXIT_HIT appended to
\* state.commands is appended by the Execution Engine's tick processing.
C39_ClientsCannotInjectHits ==
    [][/\ ValidatorTakesForeign =>
            /\ riskRequests' = riskRequests
            /\ stateCommands' = stateCommands
            /\ Len(commandResponses') = Len(commandResponses) + 1
            /\ commandResponses'[Len(commandResponses')].success = FALSE
            /\ commandResponses'[Len(commandResponses')].request_id # NONE
       /\ \A i \in DOMAIN riskRequests' :
             Upper(riskRequests'[i].command) \in ClientCommandTypes
       /\ (\E i \in DOMAIN NewStateCommands :
               Upper(NewStateCommands[i].command) \in {"ENTRY_HIT", "EXIT_HIT"}) =>
             tickCount' = tickCount + 1]_vars

\* a client's ENTRY_HIT or EXIT_HIT was taken and refused, and the Execution
\* Engine's own trigger for the bracket is on state.commands
C39_Witness ==
    /\ apiCommands = <<>>
    /\ \E i \in DOMAIN commandResponses :
          /\ commandResponses[i].success = FALSE
          /\ commandResponses[i].message = "Unknown command"
    /\ \E i \in DOMAIN stateCommands :
          stateCommands[i].command \in {"ENTRY_HIT", "EXIT_HIT"}

(* ------------------- PLACE_BRACKET with the side in either case --------- *)
\* PLACE_BRACKET commands the Validator and the Risk Manager approve, the side
\* written in upper or lower case
SideCmds ==
    {PlaceBracketCmd(1, side, MaxQty, 2, 3, 1) : side \in {"BUY", "buy"}}
    \cup {PlaceBracketCmd(1, side, MaxQty, 2, 1, 3) : side \in {"SELL", "sell"}}

\* one PLACE_BRACKET waits on api.commands
InitSide ==
    /\ PAPER_TRADING \in BOOLEAN
    /\ brackets = <<>>
    /\ orders = <<>>
    /\ activeBrackets = {}
    /\ activeInstrument = [i \in Instruments |-> {}]
    /\ activeStrategy = [st \in Strategies |-> {}]
    /\ brokerOrderMapping = <<>>
    /\ apiCommands \in {<<c>> : c \in SideCmds}
    /\ riskRequests = <<>>
    /\ stateCommands = <<>>
    /\ brokerCommands = <<>>
    /\ orderUpdates = <<>>
    /\ orderEvents = <<>>
    /\ commandResponses = <<>>
    /\ kiteOrders = <<>>
    /\ uuidCount = 0
    /\ lastHandled = [source |-> "", msg |-> NoCmd, pre_state |-> "NONE"]
    /\ inFlight = NoTask
    /\ pending = [k \in ConsumedStreams |-> <<>>]
    /\ faultCount = 0
    /\ clientCount = 1
    /\ tickCount = 0
    /\ pushCount = 0

NextSide ==
    \/ ValidatorStep
    \/ RiskStep
    \/ StateCommandStep
    \/ OrderUpdateStep
    \/ Tick
    \/ GatewayStep
    \/ BrokerPush

SpecSide == InitSide /\ [][NextSide]_vars

\* the side that closes a position opened with this side, as the Validator and
\* the Risk Manager read it
ClosingSide(side) == IF Upper(side) = "BUY" THEN "SELL" ELSE "BUY"

\* C40: exit orders always close the position: for every PLACE_BRACKET that
\* passed the Validator and the Risk Manager, the persisted target and
\* stoploss orders and their PLACE_ORDER commands have the side opposite to
\* the entry order's side.
C40_ExitsCloseThePosition ==
    \A b \in DOMAIN brackets :
       LET entry == brackets[b].entry_order_id
           exits == {brackets[b].target_order_id, brackets[b].stoploss_order_id}
       IN  entry \in DOMAIN orders =>
             /\ \A o \in exits :
                   (o \in DOMAIN orders /\ orders[o].side # "") =>
                      orders[o].side = ClosingSide(orders[entry].side)
             /\ \A i \in DOMAIN brokerCommands :
                   (brokerCommands[i].command = "PLACE_ORDER"
                      /\ brokerCommands[i].order_id \in exits) =>
                      brokerCommands[i].side = ClosingSide(orders[entry].side)
====
